---- MODULE Spec2Model ----
(***************************************************************************)
(* Location content synthesis engine: suburb repository (static file and   *)
(* live PostGIS backends), footer suburb selection with its per-process    *)
(* cache, and the seeded spintax engine.                                   *)
(*                                                                         *)
(* Units.  Coordinates are points of a plane, one unit = 10 m; a distance  *)
(* is a whole number of hundredths of a kilometre.  The haversine formula  *)
(* of the source is modelled by the planar distance, which is what it      *)
(* amounts to at the scale of one metropolitan area; the roundings the     *)
(* source applies to a distance are modelled exactly.                      *)
(***************************************************************************)
EXTENDS Integers, Sequences, FiniteSets, TLC

VARIABLES
    suburbsData,     \* static-suburbs.ts: the imported suburbs.json, or null
    cachedSuburbs,   \* static-suburbs.ts: the memoized suburb list, or null
    siteState,       \* siteConfig.address.state
    dbStatus,        \* locations.ts: what the PostGIS pool does for a query
    dbRows,          \* the rows of the suburbs tables of the live database
    call,            \* the last repository call: operation, arguments, outcome
    centersQueried,  \* the centers the repository was queried with so far
    useStaticData,   \* footer-locations.ts: which backend the module selected
    envCenter,       \* SERVICE_CENTER_LAT / SERVICE_CENTER_LNG, or null
    serviceRadiusKm, \* siteConfig.locationPages.serviceRadiusKm, or undefined
    footerFeaturedSuburbs, \* siteConfig.locationPages.footerFeaturedSuburbs
    mainLocation,    \* PUBLIC_MAIN_LOCATION ('' when unset)
    footer,          \* the last getFooterLocations call and what it resolved to
    selection,       \* the last smartSelectLocations call and its result
    cachedFooterLocations, \* footer-locations.ts: the memoized footer list, or null
    cachedData,      \* footer-data.ts: the memoized footer data, or null
    cachedMapConfig, \* google-places.ts: the memoized map configuration, or null
    callers,         \* the pending and finished calls of the cached getters
    computations,    \* how many times getFooterLocations was started
    spin,            \* the seed, template and data content is generated from
    outputs,         \* what successive generateContent calls returned
    env,             \* import.meta.env: POSTGIS_HOST and USE_STATIC_SUBURBS
    builderUseStaticData, \* location-builder.ts: which backend the module selected
    backendsQueried, \* the backends the footer selector and the builder queried
    build,           \* buildLocationPages: where the call is and what it holds
    loop,            \* processSpintaxWithSeed: the text and the iteration count
    processor,       \* a TemplateProcessor: its kind and its data, or null
    validation       \* validate-suburbs: the file, the database, where the script is

staticVars == <<suburbsData, cachedSuburbs, siteState>>
liveVars == <<dbStatus, dbRows>>
callVars == <<call, centersQueried>>
configVars == <<useStaticData, envCenter, serviceRadiusKm, footerFeaturedSuburbs,
                mainLocation>>
footerVars == <<footer, selection>>
\* What the repository's own queries leave alone.
cacheVars == <<cachedFooterLocations, cachedData, cachedMapConfig, callers,
               computations>>
spintaxVars == <<spin, outputs>>
pageVars == <<env, builderUseStaticData, backendsQueried, build>>
templateVars == <<loop, processor>>
scriptVars == <<validation>>
nonRepoVars == <<configVars, footerVars, cacheVars, spintaxVars, pageVars, templateVars,
                 scriptVars>>
vars == <<suburbsData, cachedSuburbs, siteState, dbStatus, dbRows, call,
          centersQueried, configVars, footerVars, cacheVars, spintaxVars, pageVars,
          templateVars, scriptVars>>

----------------------------------------------------------------------------
(* Bounds of the model *)

\* Largest number of suburbs in the dataset file / the database.
MaxSuburbs == 12

\* Largest `limit' argument of getNearbySuburbs.
MaxLimit == 3

----------------------------------------------------------------------------
(* JavaScript values *)

Null == [isNull |-> TRUE]
Some(v) == [isNull |-> FALSE, val |-> v]

\* An optional number that is absent (undefined, or null in a database row).
undefined == -1

abs(x) == IF x < 0 THEN -x ELSE x

\* k kilometres, in hundredths of a kilometre.
Km(k) == k * 100

----------------------------------------------------------------------------
(* Strings *)

charAt(s, i) == SubSeq(s, i, i)

lowerChar(c) ==
    CASE c = "A" -> "a" [] c = "B" -> "b" [] c = "C" -> "c" [] c = "D" -> "d"
      [] c = "E" -> "e" [] c = "F" -> "f" [] c = "G" -> "g" [] c = "H" -> "h"
      [] c = "I" -> "i" [] c = "J" -> "j" [] c = "K" -> "k" [] c = "L" -> "l"
      [] c = "M" -> "m" [] c = "N" -> "n" [] c = "O" -> "o" [] c = "P" -> "p"
      [] c = "Q" -> "q" [] c = "R" -> "r" [] c = "S" -> "s" [] c = "T" -> "t"
      [] c = "U" -> "u" [] c = "V" -> "v" [] c = "W" -> "w" [] c = "X" -> "x"
      [] c = "Y" -> "y" [] c = "Z" -> "z" [] OTHER -> c

RECURSIVE toLowerCase(_)
toLowerCase(s) ==
    IF s = "" THEN "" ELSE lowerChar(charAt(s, 1)) \o toLowerCase(Tail(s))

\* String.prototype.includes
includes(s, part) ==
    \E i \in 1..(Len(s) - Len(part) + 1) : SubSeq(s, i, i + Len(part) - 1) = part

\* The least element of a non-empty set of numbers.
Min(S) == CHOOSE x \in S : \A y \in S : x <= y

\* str.indexOf(key) + 1: the first position key occurs at, 0 when nowhere.
indexOf(text, key) ==
    LET hits == {i \in 1..(Len(text) - Len(key) + 1) :
                    SubSeq(text, i, i + Len(key) - 1) = key}
    IN  IF hits = {} THEN 0 ELSE Min(hits)

----------------------------------------------------------------------------
(* Sequences *)

SeqMap(s, f(_)) == [i \in 1..Len(s) |-> f(s[i])]

\* Array.prototype.slice(0, n)
slice0(s, n) == SubSeq(s, 1, IF n < Len(s) THEN n ELSE Len(s))

Range(s) == {s[i] : i \in 1..Len(s)}

----------------------------------------------------------------------------
(* GeoMath *)

\* floor(sqrt(n)), by bisection on lo..hi
RECURSIVE isqrt(_, _, _)
isqrt(n, lo, hi) ==
    IF lo >= hi THEN lo
    ELSE LET mid == (lo + hi + 1) \div 2
         IN  IF mid * mid <= n THEN isqrt(n, mid, hi) ELSE isqrt(n, lo, mid - 1)

\* calculateDistance: the distance between two points, in hundredths of a
\* kilometre, before any rounding the caller applies.
calculateDistance(lat1, lon1, lat2, lon2) ==
    LET dLat == lat2 - lat1
        dLon == lon2 - lon1
    IN  isqrt(dLat * dLat + dLon * dLon, 0, abs(dLat) + abs(dLon))

\* Math.round(distance * 10) / 10: to the nearest tenth of a kilometre.
round1(distance) == ((distance + 5) \div 10) * 10

directions == <<"N", "NE", "E", "SE", "S", "SW", "W", "NW">>

\* Math.round(normalized / 45) % 8 for the angle atan2(dLng, dLat): the
\* octant whose axis is nearest.  The angle is within 22.5 degrees of the
\* latitude axis iff dLng/dLat < tan 22.5 = sqrt 2 - 1, that is iff
\* (|dLat| + |dLng|)^2 < 2 dLat^2; atan2(0, 0) is 0.
bearingIndex(dLat, dLng) ==
    LET a == abs(dLat)
        b == abs(dLng)
        s == (a + b) * (a + b)
    IN  IF a = 0 /\ b = 0 THEN 0
        ELSE IF s < 2 * a * a THEN (IF dLat > 0 THEN 0 ELSE 4)
        ELSE IF s < 2 * b * b THEN (IF dLng > 0 THEN 2 ELSE 6)
        ELSE IF dLat > 0 THEN (IF dLng > 0 THEN 1 ELSE 7)
        ELSE (IF dLng > 0 THEN 3 ELSE 5)

calculateDirection(fromLat, fromLng, toLat, toLng) ==
    LET dLng == toLng - fromLng
        dLat == toLat - fromLat
        index == bearingIndex(dLat, dLng)
    IN  directions[index + 1]

----------------------------------------------------------------------------
(* The suburbs of the region: the rows of the database tables, from which  *)
(* the dataset file is exported.  Suburb i of a layout has a position, a   *)
(* name and census figures that are fixed functions of i, so that a larger *)
(* region extends a smaller one.                                           *)

NumLayouts == 3

suburbNames ==
    <<"Adelaide", "North Adelaide", "Prospect", "Glenelg", "Henley Beach",
      "Port Adelaide", "Modbury Heights", "Aberfoyle Park", "Happy Valley",
      "Parafield Gardens", "Redwood Park", "Marion", "Unley", "Kilburn",
      "Enfield", "Salisbury">>

nameOf(i) == IF i <= Len(suburbNames) THEN suburbNames[i] ELSE "Suburb " \o ToString(i)

\* The unit vector of compass point k (0 = N, clockwise), as (dLat, dLng).
vLat(k) == IF k \in {0, 1, 7} THEN 1 ELSE IF k \in {3, 4, 5} THEN -1 ELSE 0
vLng(k) == IF k \in {1, 2, 3} THEN 1 ELSE IF k \in {5, 6, 7} THEN -1 ELSE 0

\* Layout 1: a spiral through all compass points out to beyond 50 km.
\* Layout 2: a line due north, every 4 km.
\* Layout 3: a spiral that stays within 20 km.
latitudeOf(i, layout) ==
    CASE layout = 1 -> vLat(i % 8) * (350 * i + 4)
      [] layout = 2 -> 400 * i + 4
      [] OTHER -> vLat(i % 8) * (100 * i + 4)

longitudeOf(i, layout) ==
    CASE layout = 1 -> vLng(i % 8) * (350 * i + 4)
      [] layout = 2 -> 0
      [] OTHER -> vLng(i % 8) * (100 * i + 4)

populationOf(i) ==
    IF i % 4 = 0 THEN undefined ELSE IF i % 7 = 0 THEN 0 ELSE (i * 2300) % 13000

populationDensityOf(i) ==
    IF i % 3 = 0 THEN undefined ELSE (i * 700) % 2500

postcodeOf(i) == IF i % 5 = 0 THEN "" ELSE "5" \o ToString(100 + i)

\* One row of suburbs joined with its primary postcode and its population.
dbRow(i, layout) ==
    [id |-> i, name |-> nameOf(i), postcode |-> postcodeOf(i), state |-> "SA",
     latitude |-> latitudeOf(i, layout), longitude |-> longitudeOf(i, layout),
     population_total |-> populationOf(i),
     population_density |-> populationDensityOf(i)]

Region(n, layout) == [i \in 1..n |-> dbRow(i, layout)]

Regions == {Region(n, layout) : n \in 0..MaxSuburbs, layout \in 1..NumLayouts}

\* A suburbs table whose ids start at 0.
RegionFromZero(n, layout) ==
    [i \in 1..n |-> [dbRow(i, layout) EXCEPT !.id = i - 1]]

\* A stable sort by ascending distanceKm (Array.prototype.sort with
\* (a, b) => a.distanceKm - b.distanceKm, and ORDER BY distance_km ASC).
RECURSIVE insertByDistance(_, _)
insertByDistance(sorted, x) ==
    IF sorted = <<>> THEN <<x>>
    ELSE LET last == sorted[Len(sorted)]
         IN  IF last.distanceKm <= x.distanceKm THEN Append(sorted, x)
             ELSE Append(insertByDistance(SubSeq(sorted, 1, Len(sorted) - 1), x), last)

RECURSIVE sortByDistance(_)
sortByDistance(s) ==
    IF s = <<>> THEN <<>>
    ELSE insertByDistance(sortByDistance(SubSeq(s, 1, Len(s) - 1)), s[Len(s)])

\* ST_DWithin(location, point, radius): the exact distance is at most radius.
ST_DWithin(lat1, lon1, lat2, lon2, radius) ==
    LET dLat == lat2 - lat1
        dLon == lon2 - lon1
    IN  dLat * dLat + dLon * dLon <= radius * radius

\* ROUND(ST_Distance / 1000, 2): the distance to the nearest hundredth.
ST_Distance2(lat1, lon1, lat2, lon2) ==
    LET dLat == lat2 - lat1
        dLon == lon2 - lon1
    IN  (isqrt(4 * (dLat * dLat + dLon * dLon), 0, 2 * (abs(dLat) + abs(dLon))) + 1) \div 2

\* The export script: the suburbs within 50 km of the export center, nearest
\* first, each with its distance (2 decimals) and direction from that center.
exportCenter == [lat |-> 0, lng |-> 0]

exportRadiusKm == 50

exportSuburbs(rows) ==
    LET entry(row) ==
            [id |-> row.id, name |-> row.name, postcode |-> row.postcode,
             state |-> row.state, latitude |-> row.latitude,
             longitude |-> row.longitude,
             distanceKm |-> ST_Distance2(exportCenter.lat, exportCenter.lng,
                                         row.latitude, row.longitude),
             direction |-> calculateDirection(exportCenter.lat, exportCenter.lng,
                                              row.latitude, row.longitude),
             population |-> IF row.population_total \in {undefined, 0}
                            THEN undefined ELSE row.population_total]
        within == SelectSeq(rows, LAMBDA row :
                      ST_DWithin(exportCenter.lat, exportCenter.lng,
                                 row.latitude, row.longitude, Km(exportRadiusKm)))
    IN  [center |-> exportCenter, radiusKm |-> exportRadiusKm,
         suburbs |-> sortByDistance(SeqMap(within, entry))]

----------------------------------------------------------------------------
(* The outcome of an asynchronous call *)

Ok(v) == [threw |-> FALSE, value |-> v]
Throw == [threw |-> TRUE, value |-> <<>>]

----------------------------------------------------------------------------
(* static-suburbs.ts *)

\* The business coordinates of the site configuration are the origin.
siteCoordinates == [lat |-> 0, lng |-> 0]

fallbackData(state) ==
    IF state = "SA"
    THEN <<[name |-> "Adelaide", postcode |-> "5000", lat |-> -854, lng |-> 162],
           [name |-> "North Adelaide", postcode |-> "5006", lat |-> -609, lng |-> 92],
           [name |-> "Prospect", postcode |-> "5082", lat |-> -351, lng |-> 106],
           [name |-> "Glenelg", postcode |-> "5045", lat |-> -1426, lng |-> -614],
           [name |-> "Henley Beach", postcode |-> "5022", lat |-> -722, lng |-> -819],
           [name |-> "Port Adelaide", postcode |-> "5015", lat |-> 44, lng |-> -741],
           [name |-> "Modbury", postcode |-> "5092", lat |-> 205, lng |-> 916],
           [name |-> "Marion", postcode |-> "5043", lat |-> -1463, lng |-> -300]>>
    ELSE <<[name |-> "Surfers Paradise", postcode |-> "4217", lat |-> 160, lng |-> 286],
           [name |-> "Broadbeach", postcode |-> "4218", lat |-> -179, lng |-> 291],
           [name |-> "Burleigh Heads", postcode |-> "4220", lat |-> -791, lng |-> 441],
           [name |-> "Southport", postcode |-> "4215", lat |-> 548, lng |-> 140],
           [name |-> "Robina", postcode |-> "4226", lat |-> -693, lng |-> -97]>>

generateFallbackSuburbs(state) ==
    LET data == fallbackData(state)
    IN  [index \in 1..Len(data) |->
            [id |-> index, name |-> data[index].name,
             postcode |-> data[index].postcode, state |-> state,
             latitude |-> data[index].lat, longitude |-> data[index].lng,
             distanceKm |-> round1(calculateDistance(siteCoordinates.lat,
                                siteCoordinates.lng, data[index].lat, data[index].lng)),
             direction |-> calculateDirection(siteCoordinates.lat,
                                siteCoordinates.lng, data[index].lat, data[index].lng)]]

\* A loader whose memoized list was reversed in place by the query before.
loadSuburbs_reversed(cache, data, state) ==
    IF ~cache.isNull THEN [k \in 1..Len(cache.val) |-> cache.val[Len(cache.val) + 1 - k]]
    ELSE IF data.isNull THEN generateFallbackSuburbs(state)
    ELSE SeqMap(data.val.suburbs, LAMBDA s :
             [id |-> s.id, name |-> s.name, postcode |-> s.postcode,
              state |-> s.state, latitude |-> s.latitude,
              longitude |-> s.longitude, distanceKm |-> s.distanceKm,
              direction |-> s.direction])

\* loadSuburbs: the memoized list (an empty array is truthy), else the
\* fallback list when the file is missing, else the suburbs of the file.
loadSuburbs(cache, data, state) ==
    IF ~cache.isNull THEN cache.val
    ELSE IF data.isNull THEN generateFallbackSuburbs(state)
    ELSE SeqMap(data.val.suburbs, LAMBDA s :
             [id |-> s.id, name |-> s.name, postcode |-> s.postcode,
              state |-> s.state, latitude |-> s.latitude,
              longitude |-> s.longitude, distanceKm |-> s.distanceKm,
              direction |-> s.direction])

\* { ...suburb, distanceKm: Math.round(distance * 10) / 10, direction }
recomputed(suburb, lat, lng) ==
    [suburb EXCEPT
        !.distanceKm = round1(calculateDistance(lat, lng, suburb.latitude,
                                                suburb.longitude)),
        !.direction = calculateDirection(lat, lng, suburb.latitude,
                                         suburb.longitude)]

\* A query that filters on the distance stored in the file.
static_getSuburbsWithinRadius_storedFilter(suburbs, centerLat, centerLng, radiusKm) ==
    sortByDistance(
        SeqMap(SelectSeq(suburbs, LAMBDA suburb : suburb.distanceKm <= Km(radiusKm)),
               LAMBDA suburb : recomputed(suburb, centerLat, centerLng)))

static_getSuburbsWithinRadius(suburbs, centerLat, centerLng, radiusKm) ==
    sortByDistance(
        SelectSeq(SeqMap(suburbs, LAMBDA suburb : recomputed(suburb, centerLat, centerLng)),
                  LAMBDA suburb : suburb.distanceKm <= Km(radiusKm)))

\* A query that returns the distance and direction stored on the entity.
static_getNearbySuburbs_stored(suburbs, lat, lng, limit, excludeId) ==
    slice0(sortByDistance(SelectSeq(suburbs, LAMBDA s : s.id # excludeId)), limit)

\* excludeId = undefined when the argument is not given.
static_getNearbySuburbs(suburbs, lat, lng, limit, excludeId) ==
    LET withDistances ==
            sortByDistance(
                SeqMap(SelectSeq(suburbs, LAMBDA s : s.id # excludeId),
                       LAMBDA suburb : recomputed(suburb, lat, lng)))
    IN  slice0(withDistances, limit)

\* suburbsData.suburbs.find(s => s.id === suburb.id)?.population || undefined,
\* for a file that was loaded.
filePopulation(data, id) ==
    LET hits == SelectSeq(data.val.suburbs, LAMBDA s : s.id = id)
    IN  IF hits = <<>> THEN undefined
        ELSE IF hits[1].population \in {undefined, 0} THEN undefined
        ELSE hits[1].population

\* The population fields added to each suburb; reading suburbsData.suburbs
\* throws a TypeError when suburbsData is null and there is a suburb to map.
withPopulationFields(found, data) ==
    IF data.isNull /\ found # <<>> THEN Throw
    ELSE Ok(SeqMap(found, LAMBDA suburb :
                [id |-> suburb.id, name |-> suburb.name,
                 postcode |-> suburb.postcode, state |-> suburb.state,
                 latitude |-> suburb.latitude, longitude |-> suburb.longitude,
                 distanceKm |-> suburb.distanceKm, direction |-> suburb.direction,
                 population |-> filePopulation(data, suburb.id),
                 populationDensity |-> undefined]))

static_getSuburbsWithPopulation(suburbs, data, centerLat, centerLng, radiusKm) ==
    withPopulationFields(
        static_getSuburbsWithinRadius(suburbs, centerLat, centerLng, radiusKm), data)

\* A lookup that accepts a suburb whose name holds one of the names.
static_getSuburbsByName_substring(suburbs, data, names) ==
    withPopulationFields(
        SelectSeq(suburbs, LAMBDA suburb :
            \E k \in 1..Len(names) :
                includes(toLowerCase(suburb.name), toLowerCase(names[k]))),
        data)

static_getSuburbsByName(suburbs, data, names) ==
    LET lowerNames == SeqMap(names, toLowerCase)
        found == SelectSeq(suburbs, LAMBDA suburb :
                     toLowerCase(suburb.name) \in Range(lowerNames))
    IN  withPopulationFields(found, data)

----------------------------------------------------------------------------
(* locations.ts: the PostGIS backend *)

\* getPool() is null when neither a connection string nor host and database
\* are configured; otherwise a query resolves with rows or rejects.
DbStatuses == {"unconfigured", "ok", "connection_failed", "query_failed"}

\* ORDER BY distance_km ASC: by the exact distance, of which the square is
\* kept while sorting.
rowsByDistance(rows, lat, lng) ==
    LET keyed == SeqMap(rows, LAMBDA row :
                     [row |-> row,
                      distanceKm |-> (row.latitude - lat) * (row.latitude - lat)
                                   + (row.longitude - lng) * (row.longitude - lng)])
    IN  SeqMap(sortByDistance(keyed), LAMBDA k : k.row)

live_getSuburbsWithinRadius(status, rows, centerLat, centerLng, radiusKm) ==
    IF status = "unconfigured" THEN Ok(<<>>)
    ELSE IF status # "ok" THEN Ok(<<>>)
    ELSE Ok(SeqMap(
            rowsByDistance(
                SelectSeq(rows, LAMBDA row :
                    ST_DWithin(centerLat, centerLng, row.latitude, row.longitude,
                               Km(radiusKm))),
                centerLat, centerLng),
            LAMBDA row :
                [id |-> row.id, name |-> row.name, postcode |-> row.postcode,
                 state |-> row.state, latitude |-> row.latitude,
                 longitude |-> row.longitude,
                 distanceKm |-> round1(calculateDistance(centerLat, centerLng,
                                                         row.latitude, row.longitude)),
                 direction |-> calculateDirection(centerLat, centerLng,
                                                  row.latitude, row.longitude)]))

\* if (excludeId): neither an absent id nor the id 0 excludes a row.
live_getNearbySuburbs(status, rows, lat, lng, limit, excludeId) ==
    IF status = "unconfigured" THEN Ok(<<>>)
    ELSE IF status # "ok" THEN Ok(<<>>)
    ELSE Ok(SeqMap(
            slice0(rowsByDistance(
                       SelectSeq(rows, LAMBDA row :
                           excludeId \in {undefined, 0} \/ row.id # excludeId),
                       lat, lng),
                   limit),
            LAMBDA row :
                [id |-> row.id, name |-> row.name, postcode |-> row.postcode,
                 state |-> row.state, latitude |-> row.latitude,
                 longitude |-> row.longitude,
                 distanceKm |-> round1(calculateDistance(lat, lng, row.latitude,
                                                         row.longitude)),
                 direction |-> calculateDirection(lat, lng, row.latitude,
                                                  row.longitude)]))

\* A query whose catch block lets the error through.
live_getSuburbsWithPopulation_rethrows(status, rows, centerLat, centerLng, radiusKm) ==
    IF status = "unconfigured" THEN Ok(<<>>)
    ELSE IF status # "ok" THEN Throw
    ELSE Ok(<<>>)

live_getSuburbsWithPopulation(status, rows, centerLat, centerLng, radiusKm) ==
    IF status = "unconfigured" THEN Ok(<<>>)
    ELSE IF status # "ok" THEN Ok(<<>>)
    ELSE Ok(SeqMap(
            rowsByDistance(
                SelectSeq(rows, LAMBDA row :
                    ST_DWithin(centerLat, centerLng, row.latitude, row.longitude,
                               Km(radiusKm))),
                centerLat, centerLng),
            LAMBDA row :
                [id |-> row.id, name |-> row.name, postcode |-> row.postcode,
                 state |-> row.state, latitude |-> row.latitude,
                 longitude |-> row.longitude,
                 distanceKm |-> round1(calculateDistance(centerLat, centerLng,
                                                         row.latitude, row.longitude)),
                 direction |-> calculateDirection(centerLat, centerLng,
                                                  row.latitude, row.longitude),
                 population |-> row.population_total,
                 populationDensity |-> row.population_density]))

\* distanceKm 0 and direction '' are left for the caller to compute.
live_getSuburbsByName(status, rows, names) ==
    IF status = "unconfigured" THEN Ok(<<>>)
    ELSE IF names = <<>> THEN Ok(<<>>)
    ELSE IF status # "ok" THEN Ok(<<>>)
    ELSE LET lowerNames == SeqMap(names, toLowerCase)
         IN  Ok(SeqMap(
                 SelectSeq(rows, LAMBDA row :
                     toLowerCase(row.name) \in Range(lowerNames)),
                 LAMBDA row :
                     [id |-> row.id, name |-> row.name, postcode |-> row.postcode,
                      state |-> row.state, latitude |-> row.latitude,
                      longitude |-> row.longitude, distanceKm |-> 0,
                      direction |-> "",
                      population |-> row.population_total,
                      populationDensity |-> row.population_density]))

----------------------------------------------------------------------------
(* The arguments the repository is queried with *)

Centers == {[lat |-> 0, lng |-> 0], [lat |-> -890, lng |-> 180]}

RadiiKm == {10, 20, 50}

ExcludeIds == {undefined, 0, 1, 2}

defaultSuburbNames ==
    <<"Adelaide", "North Adelaide", "Prospect", "Glenelg", "Henley Beach",
      "Port Adelaide", "Modbury Heights", "Aberfoyle Park", "Happy Valley",
      "Parafield Gardens", "Redwood Park">>

NameLists ==
    {<<>>, <<"glenelg">>, <<"PROSPECT", "Nowhere", "Adelaide">>, <<"Adel">>,
     <<"Surfers Paradise", "Robina">>, defaultSuburbNames}

NoCall == [backend |-> "none", op |-> "none", args |-> <<>>, threw |-> FALSE,
           value |-> <<>>]

Called(backend, op, args, outcome) ==
    [backend |-> backend, op |-> op, args |-> args, threw |-> outcome.threw,
     value |-> outcome.value]

\* The default configuration.
IdleConfig ==
    /\ envCenter = Null
    /\ serviceRadiusKm = undefined
    /\ footerFeaturedSuburbs = <<>>
    /\ mainLocation = ""

\* Nobody asks for the cached footer.
IdleCache ==
    /\ cachedFooterLocations = Null
    /\ cachedData = Null
    /\ cachedMapConfig = Null
    /\ callers = <<>>
    /\ computations = 0

\* No content is generated.
IdleSpintax ==
    /\ spin = [seed |-> "", template |-> "", data |-> Null]
    /\ outputs = <<>>

\* const useStaticData = !POSTGIS_HOST || POSTGIS_HOST === 'localhost' ||
\* USE_STATIC_SUBURBS === 'true', of footer-locations.ts; '' is a variable
\* that is not set.
footerSelectsStatic(e) ==
    e.POSTGIS_HOST = "" \/ e.POSTGIS_HOST = "localhost" \/ e.USE_STATIC_SUBURBS = "true"

\* A selection that takes a database on localhost for a live backend.
builderSelectsStatic_localhostLive(e) ==
    e.POSTGIS_HOST = "" \/ e.USE_STATIC_SUBURBS = "true"

\* The same constant of location-builder.ts.
builderSelectsStatic(e) ==
    e.POSTGIS_HOST = "" \/ e.POSTGIS_HOST = "localhost" \/ e.USE_STATIC_SUBURBS = "true"

\* An environment under which the modules select the given backend.
envFor(static) ==
    [POSTGIS_HOST |-> IF static THEN "" ELSE "db.example.com", USE_STATIC_SUBURBS |-> ""]

\* No template is being processed.
IdleTemplates ==
    /\ loop = [pc |-> "idle"]
    /\ processor = Null
    /\ validation = [pc |-> "idle"]

\* No location page is being built.
IdlePages ==
    /\ env = envFor(useStaticData)
    /\ builderUseStaticData = builderSelectsStatic(env)
    /\ backendsQueried = {}
    /\ build = [pc |-> "idle"]
    /\ IdleTemplates

\* No footer is being selected.
IdleFooter ==
    /\ IdleConfig
    /\ footer = [called |-> FALSE]
    /\ selection = [called |-> FALSE]
    /\ IdleCache
    /\ IdleSpintax
    /\ IdlePages

----------------------------------------------------------------------------
(* The static backend, queried in any order with any arguments *)

StaticGetSuburbsWithinRadius ==
    \E c \in Centers, r \in RadiiKm :
        LET suburbs == loadSuburbs(cachedSuburbs, suburbsData, siteState)
        IN  /\ cachedSuburbs' = Some(suburbs)
            /\ call' = Called("static", "getSuburbsWithinRadius",
                              [center |-> c, radiusKm |-> r],
                              Ok(static_getSuburbsWithinRadius(suburbs, c.lat, c.lng, r)))
            /\ centersQueried' = centersQueried \cup {c}
            /\ UNCHANGED <<suburbsData, siteState, liveVars, nonRepoVars>>

StaticGetNearbySuburbs ==
    \E c \in Centers, limit \in 0..MaxLimit, excludeId \in ExcludeIds :
        LET suburbs == loadSuburbs(cachedSuburbs, suburbsData, siteState)
        IN  /\ cachedSuburbs' = Some(suburbs)
            /\ call' = Called("static", "getNearbySuburbs",
                              [center |-> c, limit |-> limit, excludeId |-> excludeId],
                              Ok(static_getNearbySuburbs(suburbs, c.lat, c.lng, limit,
                                                         excludeId)))
            /\ centersQueried' = centersQueried \cup {c}
            /\ UNCHANGED <<suburbsData, siteState, liveVars, nonRepoVars>>

StaticGetSuburbsWithPopulation ==
    \E c \in Centers, r \in RadiiKm :
        LET suburbs == loadSuburbs(cachedSuburbs, suburbsData, siteState)
        IN  /\ cachedSuburbs' = Some(suburbs)
            /\ call' = Called("static", "getSuburbsWithPopulation",
                              [center |-> c, radiusKm |-> r],
                              static_getSuburbsWithPopulation(suburbs, suburbsData,
                                                              c.lat, c.lng, r))
            /\ centersQueried' = centersQueried \cup {c}
            /\ UNCHANGED <<suburbsData, siteState, liveVars, nonRepoVars>>

StaticGetSuburbsByName ==
    \E names \in NameLists :
        LET suburbs == loadSuburbs(cachedSuburbs, suburbsData, siteState)
        IN  /\ cachedSuburbs' = Some(suburbs)
            /\ call' = Called("static", "getSuburbsByName", [names |-> names],
                              static_getSuburbsByName(suburbs, suburbsData, names))
            /\ UNCHANGED <<suburbsData, siteState, liveVars, centersQueried, nonRepoVars>>

InitStatic ==
    /\ suburbsData \in {Null} \cup {Some(exportSuburbs(rows)) : rows \in Regions}
    /\ cachedSuburbs = Null
    /\ siteState \in {"SA", "QLD"}
    /\ dbStatus = "unconfigured"
    /\ dbRows = <<>>
    /\ call = NoCall
    /\ centersQueried = {}
    /\ useStaticData = TRUE
    /\ IdleFooter

NextStatic ==
    \/ StaticGetSuburbsWithinRadius
    \/ StaticGetNearbySuburbs
    \/ StaticGetSuburbsWithPopulation
    \/ StaticGetSuburbsByName

SpecStatic == InitStatic /\ [][NextStatic]_vars

----------------------------------------------------------------------------
(* The live backend, queried in any order while the database comes and goes *)

LiveGetSuburbsWithinRadius ==
    \E c \in Centers, r \in RadiiKm :
        /\ call' = Called("live", "getSuburbsWithinRadius",
                          [center |-> c, radiusKm |-> r, status |-> dbStatus],
                          live_getSuburbsWithinRadius(dbStatus, dbRows, c.lat, c.lng, r))
        /\ centersQueried' = centersQueried \cup {c}
        /\ UNCHANGED <<staticVars, liveVars, nonRepoVars>>

LiveGetNearbySuburbs ==
    \E c \in Centers, limit \in 0..MaxLimit, excludeId \in ExcludeIds :
        /\ call' = Called("live", "getNearbySuburbs",
                          [center |-> c, limit |-> limit, excludeId |-> excludeId,
                           status |-> dbStatus],
                          live_getNearbySuburbs(dbStatus, dbRows, c.lat, c.lng, limit,
                                                excludeId))
        /\ centersQueried' = centersQueried \cup {c}
        /\ UNCHANGED <<staticVars, liveVars, nonRepoVars>>

LiveGetSuburbsWithPopulation ==
    \E c \in Centers, r \in RadiiKm :
        /\ call' = Called("live", "getSuburbsWithPopulation",
                          [center |-> c, radiusKm |-> r, status |-> dbStatus],
                          live_getSuburbsWithPopulation(dbStatus, dbRows, c.lat, c.lng, r))
        /\ centersQueried' = centersQueried \cup {c}
        /\ UNCHANGED <<staticVars, liveVars, nonRepoVars>>

LiveGetSuburbsByName ==
    \E names \in NameLists :
        /\ call' = Called("live", "getSuburbsByName",
                          [names |-> names, status |-> dbStatus],
                          live_getSuburbsByName(dbStatus, dbRows, names))
        /\ UNCHANGED <<staticVars, liveVars, centersQueried, nonRepoVars>>

\* A configured database becomes unreachable, fails a query, or recovers.
DbChanges ==
    /\ dbStatus # "unconfigured"
    /\ dbStatus' \in {"ok", "connection_failed", "query_failed"} \ {dbStatus}
    /\ UNCHANGED <<staticVars, dbRows, callVars, nonRepoVars>>

InitLive ==
    /\ suburbsData = Null
    /\ cachedSuburbs = Null
    /\ siteState = "SA"
    /\ dbStatus \in DbStatuses
    /\ dbRows \in Regions \cup {RegionFromZero(3, 1)}
    /\ call = NoCall
    /\ centersQueried = {}
    /\ useStaticData = FALSE
    /\ IdleFooter

NextLive ==
    \/ LiveGetSuburbsWithinRadius
    \/ LiveGetNearbySuburbs
    \/ LiveGetSuburbsWithPopulation
    \/ LiveGetSuburbsByName
    \/ DbChanges

SpecLive == InitLive /\ [][NextLive]_vars

----------------------------------------------------------------------------
(* Properties of the static backend *)

StaticCall(op) == call.backend = "static" /\ call.op = op

CenteredStaticCall ==
    /\ call.backend = "static"
    /\ call.op \in {"getSuburbsWithinRadius", "getNearbySuburbs",
                    "getSuburbsWithPopulation"}

fallbackNames == {"Adelaide", "North Adelaide", "Prospect", "Glenelg",
                  "Henley Beach", "Port Adelaide", "Modbury", "Marion",
                  "Surfers Paradise", "Broadbeach", "Burleigh Heads",
                  "Southport", "Robina"}

\* C7: when the dataset file is missing, every query of the static backend
\* answers from the embedded fallback list and none throws.
C7_MissingFileNeverThrows ==
    (suburbsData.isNull /\ call.backend = "static") =>
        /\ ~call.threw
        /\ \A i \in 1..Len(call.value) : call.value[i].name \in fallbackNames

\* The distance of a returned suburb from the center of the call, as the
\* query rounds it.
roundedFromCenter(suburb) ==
    round1(calculateDistance(call.args.center.lat, call.args.center.lng,
                             suburb.latitude, suburb.longitude))

\* The square of the exact distance of a returned suburb from the center.
exactSquareFromCenter(suburb) ==
    (suburb.latitude - call.args.center.lat) * (suburb.latitude - call.args.center.lat)
    + (suburb.longitude - call.args.center.lng) * (suburb.longitude - call.args.center.lng)

C10_RecomputedFromOwnCenter ==
    (CenteredStaticCall /\ ~call.threw) =>
        \A i \in 1..Len(call.value) :
            /\ call.value[i].distanceKm = roundedFromCenter(call.value[i])
            /\ call.value[i].direction =
                   calculateDirection(call.args.center.lat, call.args.center.lng,
                                      call.value[i].latitude, call.value[i].longitude)

\* A nearest-suburbs query, after a query with another center, that returned
\* a suburb whose stored distance and stored direction both differ from the
\* returned ones.
C10_Witness ==
    /\ StaticCall("getNearbySuburbs")
    /\ Cardinality(centersQueried) >= 2
    /\ \E i \in 1..Len(call.value), k \in 1..Len(cachedSuburbs.val) :
           /\ cachedSuburbs.val[k].id = call.value[i].id
           /\ cachedSuburbs.val[k].distanceKm # call.value[i].distanceKm
           /\ cachedSuburbs.val[k].direction # call.value[i].direction

----------------------------------------------------------------------------
(* Properties of the live backend *)

\* C8: every query method of the live backend returns an empty list and does
\* not throw when the database is not configured, the connection fails or
\* the query fails.
C8_LiveFailureReturnsEmpty ==
    (call.backend = "live" /\ call.args.status # "ok") =>
        (~call.threw /\ call.value = <<>>)

\* A population query that failed although the database holds suburbs
\* within the radius.
C8_Witness ==
    /\ call.backend = "live"
    /\ call.op = "getSuburbsWithPopulation"
    /\ call.args.status \in {"connection_failed", "query_failed"}
    /\ live_getSuburbsWithPopulation("ok", dbRows, call.args.center.lat,
                                     call.args.center.lng,
                                     call.args.radiusKm).value # <<>>
    /\ ~call.threw
    /\ call.value = <<>>

----------------------------------------------------------------------------
(* location-builder.ts: the service center, slugs and URLs *)

\* geocodeAddress of either backend: the Adelaide CBD.
geocodedCenter == [lat |-> -854, lng |-> 162]

\* getCenterLocation: the center of the environment, else (static backend)
\* the center recorded in suburbs.json when it can be imported, else the
\* geocoded business address.
getCenterLocation ==
    IF ~envCenter.isNull THEN envCenter.val
    ELSE IF builderUseStaticData /\ ~suburbsData.isNull THEN suburbsData.val.center
    ELSE geocodedCenter

wordChars ==
    {"a", "b", "c", "d", "e", "f", "g", "h", "i", "j", "k", "l", "m", "n", "o",
     "p", "q", "r", "s", "t", "u", "v", "w", "x", "y", "z", "A", "B", "C", "D",
     "E", "F", "G", "H", "I", "J", "K", "L", "M", "N", "O", "P", "Q", "R", "S",
     "T", "U", "V", "W", "X", "Y", "Z", "0", "1", "2", "3", "4", "5", "6", "7",
     "8", "9", "_"}

\* .replace(/[^\w\s-]/g, '')
RECURSIVE removeSpecial(_)
removeSpecial(s) ==
    IF s = "" THEN ""
    ELSE LET c == charAt(s, 1)
         IN  (IF c \in wordChars \cup {" ", "-"} THEN c ELSE "") \o removeSpecial(Tail(s))

\* .replace(/\s+/g, '-') followed by .replace(/-+/g, '-')
RECURSIVE hyphenate(_, _)
hyphenate(s, afterHyphen) ==
    IF s = "" THEN ""
    ELSE LET c == charAt(s, 1)
         IN  IF c \in {" ", "-"}
             THEN (IF afterHyphen THEN "" ELSE "-") \o hyphenate(Tail(s), TRUE)
             ELSE c \o hyphenate(Tail(s), FALSE)

generateLocationSlug(suburb) ==
    LET namePart == hyphenate(removeSpecial(toLowerCase(suburb.name)), FALSE)
        statePart == toLowerCase(suburb.state)
    IN  IF suburb.postcode # ""
        THEN namePart \o "-" \o statePart \o "-" \o suburb.postcode
        ELSE namePart \o "-" \o statePart

generateLocationUrl(suburb) ==
    IF mainLocation # "" /\ toLowerCase(suburb.name) = toLowerCase(mainLocation)
    THEN "/"
    ELSE "/locations/" \o generateLocationSlug(suburb) \o "/"

----------------------------------------------------------------------------
(* footer-locations.ts *)

\* The number of footer links.
footerCount == 11

defaultRadiusKm == 50

calculateDistanceAndDirection(suburb, centerLat, centerLng) ==
    [suburb EXCEPT
        !.distanceKm = round1(calculateDistance(centerLat, centerLng, suburb.latitude,
                                                suburb.longitude)),
        !.direction = directions[bearingIndex(suburb.latitude - centerLat,
                                              suburb.longitude - centerLng) + 1]]

majorSuburbs ==
    <<"North Adelaide", "Glenelg", "Norwood", "Port Adelaide", "Unley",
      "Prospect", "Burnside", "Mitcham", "Brighton", "Henley Beach", "Modbury",
      "Marion", "Campbelltown">>

\* scoreSuburb, in hundredths of a point.
scoreSuburb(suburb) ==
    LET populationScore ==
            IF suburb.population \notin {undefined, 0}
            THEN (IF suburb.population < 10000 THEN suburb.population ELSE 10000)
            ELSE 2500
        distanceScore ==
            IF suburb.distanceKm >= Km(5) /\ suburb.distanceKm <= Km(15) THEN 5000
            ELSE IF suburb.distanceKm < Km(5) THEN 3000
            ELSE IF suburb.distanceKm <= Km(25) THEN 4000
            ELSE IF suburb.distanceKm <= Km(35) THEN 3000
            ELSE 2000
        densityScore ==
            IF suburb.populationDensity \notin {undefined, 0}
               /\ suburb.populationDensity > 1000
            THEN 2000 ELSE 0
        majorScore ==
            IF \E m \in 1..Len(majorSuburbs) :
                   includes(toLowerCase(suburb.name), toLowerCase(majorSuburbs[m]))
            THEN 3000 ELSE 0
    IN  populationScore + distanceScore + densityScore + majorScore

\* A stable sort by descending score: scoredSuburbs.sort((a, b) => b.score - a.score)
RECURSIVE insertByScore(_, _)
insertByScore(sorted, x) ==
    IF sorted = <<>> THEN <<x>>
    ELSE LET last == sorted[Len(sorted)]
         IN  IF last.score >= x.score THEN Append(sorted, x)
             ELSE Append(insertByScore(SubSeq(sorted, 1, Len(sorted) - 1), x), last)

RECURSIVE sortByScore(_)
sortByScore(s) ==
    IF s = <<>> THEN <<>>
    ELSE insertByScore(sortByScore(SubSeq(s, 1, Len(s) - 1)), s[Len(s)])

scoredSuburbs(suburbs) ==
    sortByScore([i \in 1..Len(suburbs) |->
                    [suburb |-> suburbs[i], score |-> scoreSuburb(suburbs[i])]])

tierOf(suburb) ==
    IF suburb.distanceKm <= Km(15) THEN "close"
    ELSE IF suburb.distanceKm <= Km(30) THEN "medium"
    ELSE "far"

\* The first loop without the test of the room in the tier.
RECURSIVE greedyPass_untiered(_, _, _, _, _)
greedyPass_untiered(scored, count, i, selected, distanceTiers) ==
    IF i > Len(scored) \/ Len(selected) >= count THEN selected
    ELSE LET suburb == scored[i].suburb
             directionCount ==
                 Cardinality({k \in 1..Len(selected) :
                                 scored[selected[k]].suburb.direction = suburb.direction})
         IN  IF directionCount > 0 /\ Len(selected) > 4 /\ directionCount >= 2
             THEN greedyPass_untiered(scored, count, i + 1, selected, distanceTiers)
             ELSE greedyPass_untiered(scored, count, i + 1, Append(selected, i),
                                      distanceTiers)

\* The first loop of smartSelectLocations, from entry i of the scored list
\* on.  `selected' holds the positions, in the scored list, of the selected
\* suburbs (objects are compared by identity), distanceTiers the tier counts.
RECURSIVE greedyPass(_, _, _, _, _)
greedyPass(scored, count, i, selected, distanceTiers) ==
    IF i > Len(scored) \/ Len(selected) >= count THEN selected
    ELSE LET suburb == scored[i].suburb
             tier == tierOf(suburb)
             maxPerTier == (count + 2) \div 3
             directionCount ==
                 Cardinality({k \in 1..Len(selected) :
                                 scored[selected[k]].suburb.direction = suburb.direction})
         IN  IF distanceTiers[tier] >= maxPerTier
             THEN greedyPass(scored, count, i + 1, selected, distanceTiers)
             ELSE IF directionCount > 0 /\ Len(selected) > 4 /\ directionCount >= 2
             THEN greedyPass(scored, count, i + 1, selected, distanceTiers)
             ELSE greedyPass(scored, count, i + 1, Append(selected, i),
                             [distanceTiers EXCEPT ![tier] = @ + 1])

\* The second loop: the highest scored suburbs not selected yet.
RECURSIVE fillRemaining(_, _, _, _)
fillRemaining(scored, count, i, selected) ==
    IF i > Len(scored) \/ Len(selected) >= count THEN selected
    ELSE IF i \notin Range(selected)
    THEN fillRemaining(scored, count, i + 1, Append(selected, i))
    ELSE fillRemaining(scored, count, i + 1, selected)

\* The positions selected by the first loop alone.
constrainedSelection(scored, count) ==
    greedyPass(scored, count, 1, <<>>, [close |-> 0, medium |-> 0, far |-> 0])

\* A selection that stops after the first loop.
smartSelectLocations_noBackfill(suburbs, count) ==
    LET scored == scoredSuburbs(suburbs)
        constrained == constrainedSelection(scored, count)
    IN  slice0([k \in 1..Len(constrained) |-> scored[constrained[k]].suburb], count)

smartSelectLocations(suburbs, count) ==
    LET scored == scoredSuburbs(suburbs)
        constrained == constrainedSelection(scored, count)
        selected == IF Len(constrained) < count
                    THEN fillRemaining(scored, count, 1, constrained)
                    ELSE constrained
    IN  slice0([k \in 1..Len(selected) |-> scored[selected[k]].suburb], count)

\* finalSuburbs.map(suburb => ({ suburb, slug, url }))
footerLocationData(suburbs) ==
    [i \in 1..Len(suburbs) |->
        [suburb |-> suburbs[i], slug |-> generateLocationSlug(suburbs[i]),
         url |-> generateLocationUrl(suburbs[i])]]

fallbackSuburbs5 ==
    <<[id |-> 1, name |-> "North Adelaide", postcode |-> "5006", state |-> "SA",
       latitude |-> -609, longitude |-> 92, distanceKm |-> 250, direction |-> "N",
       population |-> undefined, populationDensity |-> undefined],
      [id |-> 2, name |-> "Prospect", postcode |-> "5082", state |-> "SA",
       latitude |-> -351, longitude |-> 106, distanceKm |-> 510, direction |-> "N",
       population |-> undefined, populationDensity |-> undefined],
      [id |-> 3, name |-> "Glenelg", postcode |-> "5045", state |-> "SA",
       latitude |-> -1426, longitude |-> -614, distanceKm |-> 1120, direction |-> "SW",
       population |-> undefined, populationDensity |-> undefined],
      [id |-> 4, name |-> "Henley Beach", postcode |-> "5022", state |-> "SA",
       latitude |-> -722, longitude |-> -819, distanceKm |-> 1150, direction |-> "W",
       population |-> undefined, populationDensity |-> undefined],
      [id |-> 5, name |-> "Port Adelaide", postcode |-> "5015", state |-> "SA",
       latitude |-> 44, longitude |-> -741, distanceKm |-> 1410, direction |-> "NW",
       population |-> undefined, populationDensity |-> undefined]>>

\* The fallback of the catch block: the first three of the same suburbs.
fallbackSuburbs3 == SubSeq(fallbackSuburbs5, 1, 3)

\* The queries of the backend the module selected; status is what the
\* database does for this query.
getSuburbsByName(status, names) ==
    IF useStaticData
    THEN static_getSuburbsByName(loadSuburbs(cachedSuburbs, suburbsData, siteState),
                                 suburbsData, names)
    ELSE live_getSuburbsByName(status, dbRows, names)

getSuburbsWithPopulation(status, centerLat, centerLng, radiusKm) ==
    IF useStaticData
    THEN static_getSuburbsWithPopulation(
             loadSuburbs(cachedSuburbs, suburbsData, siteState), suburbsData,
             centerLat, centerLng, radiusKm)
    ELSE live_getSuburbsWithPopulation(status, dbRows, centerLat, centerLng, radiusKm)

\* allSuburbs.filter(s => !validSuburbs.some(v => v.id === s.id))
\* A supplement drawn from every suburb in range.
withoutValid_unfiltered(allSuburbs, validSuburbs) == allSuburbs

withoutValid(allSuburbs, validSuburbs) ==
    SelectSeq(allSuburbs, LAMBDA s1 :
        ~\E v \in 1..Len(validSuburbs) : validSuburbs[v].id = s1.id)

\* Scored picks placed ahead of the manual suburbs.
finalSuburbs_scoredFirst(validSuburbs, additionalSuburbs) ==
    additionalSuburbs \o validSuburbs

\* finalSuburbs = [...validSuburbs, ...additionalSuburbs]
finalSuburbs(validSuburbs, additionalSuburbs) == validSuburbs \o additionalSuburbs

\* The manual branch (lines 187-221).  resolved and validSuburbs are kept
\* beside the result.
manualFooterLocations(statusByName, statusAll, center, radiusKm) ==
    LET byName == getSuburbsByName(statusByName, footerFeaturedSuburbs)
        suburbsWithDistance ==
            SeqMap(byName.value, LAMBDA suburb :
                calculateDistanceAndDirection(suburb, center.lat, center.lng))
        validSuburbs ==
            SelectSeq(suburbsWithDistance, LAMBDA s1 : s1.distanceKm <= Km(radiusKm))
        all == getSuburbsWithPopulation(statusAll, center.lat, center.lng, radiusKm)
        additionalSuburbs ==
            smartSelectLocations(withoutValid(all.value, validSuburbs),
                                 footerCount - Len(validSuburbs))
    IN  IF byName.threw THEN [threw |-> TRUE]
        ELSE IF Len(validSuburbs) >= footerCount
        THEN [threw |-> FALSE, resolved |-> byName.value, valid |-> validSuburbs,
              value |-> footerLocationData(slice0(validSuburbs, footerCount))]
        ELSE IF all.threw THEN [threw |-> TRUE]
        ELSE [threw |-> FALSE, resolved |-> byName.value, valid |-> validSuburbs,
              value |-> footerLocationData(
                            slice0(finalSuburbs(validSuburbs, additionalSuburbs),
                                   footerCount))]

\* The scored branch (lines 223-281).
smartFooterLocations(statusAll, statusByName, center, radiusKm) ==
    LET all == getSuburbsWithPopulation(statusAll, center.lat, center.lng, radiusKm)
        defaults == getSuburbsByName(statusByName, defaultSuburbNames)
        suburbsWithDistance ==
            SeqMap(defaults.value, LAMBDA suburb :
                calculateDistanceAndDirection(suburb, center.lat, center.lng))
        selectedSuburbs == smartSelectLocations(all.value, footerCount)
    IN  IF all.threw THEN [threw |-> TRUE]
        ELSE IF all.value = <<>>
        THEN IF defaults.threw THEN [threw |-> TRUE]
             ELSE IF defaults.value = <<>>
             THEN [threw |-> FALSE, resolved |-> <<>>, valid |-> <<>>, value |-> <<>>]
             ELSE [threw |-> FALSE, resolved |-> <<>>, valid |-> <<>>,
                   value |-> footerLocationData(slice0(suburbsWithDistance, footerCount))]
        ELSE IF selectedSuburbs = <<>>
        THEN [threw |-> FALSE, resolved |-> <<>>, valid |-> <<>>,
              value |-> footerLocationData(fallbackSuburbs5)]
        ELSE [threw |-> FALSE, resolved |-> <<>>, valid |-> <<>>,
              value |-> footerLocationData(selectedSuburbs)]

\* getFooterLocations: status1 and status2 are what the database does for
\* the first and the second query of the call.  The branch taken, the
\* resolved and the valid manual suburbs are kept beside the list.
getFooterLocations(status1, status2) ==
    LET center == getCenterLocation
        radiusKm == IF serviceRadiusKm \in {undefined, 0} THEN defaultRadiusKm
                    ELSE serviceRadiusKm
        manual == footerFeaturedSuburbs # <<>>
        body == IF manual
                THEN manualFooterLocations(status1, status2, center, radiusKm)
                ELSE smartFooterLocations(status1, status2, center, radiusKm)
    IN  IF body.threw
        THEN [threw |-> FALSE, caught |-> TRUE, manual |-> manual, center |-> center,
              radiusKm |-> radiusKm, resolved |-> <<>>, valid |-> <<>>,
              value |-> footerLocationData(fallbackSuburbs3)]
        ELSE [threw |-> FALSE, caught |-> FALSE, manual |-> manual, center |-> center,
              radiusKm |-> radiusKm, resolved |-> body.resolved, valid |-> body.valid,
              value |-> body.value]

----------------------------------------------------------------------------
(* The footer selection, under any configuration and repository *)

\* The regions the footer is selected from: none, a few, one less than and
\* as many suburbs as the bound allows.
FooterRegions ==
    {Region(0, 1), Region(3, 1)}
    \cup {Region(n, layout) : n \in {MaxSuburbs - 1, MaxSuburbs},
                              layout \in 1..NumLayouts}

\* footerFeaturedSuburbs of the site configuration.
FeaturedLists ==
    {<<>>, <<"glenelg", "Nowhere", "Prospect", "UNLEY">>, suburbNames}

\* The counts smartSelectLocations is called with.
Counts == {1, 4, footerCount}

\* What the database does for the queries of one call: a pool that is not
\* configured stays so, a configured one may fail any query.
QueryStatuses ==
    IF dbStatus = "unconfigured" THEN {"unconfigured"}
    ELSE DbStatuses \ {"unconfigured"}

\* The backend the queries of footer-locations.ts go to.
footerBackend == IF useStaticData THEN "static" ELSE "live"

GetFooterLocations ==
    \E status1 \in QueryStatuses, status2 \in QueryStatuses :
        /\ footer' = [called |-> TRUE, result |-> getFooterLocations(status1, status2)]
        /\ backendsQueried' = backendsQueried \cup {footerBackend}
        /\ cachedSuburbs' = IF useStaticData
                            THEN Some(loadSuburbs(cachedSuburbs, suburbsData, siteState))
                            ELSE cachedSuburbs
        /\ UNCHANGED <<suburbsData, siteState, liveVars, callVars, configVars, selection,
                       cacheVars, spintaxVars, templateVars, env, builderUseStaticData, build,
                       scriptVars>>

\* smartSelectLocations applied to the suburbs the repository has in range.
SmartSelectLocations ==
    \E count \in Counts :
        LET center == getCenterLocation
            radiusKm == IF serviceRadiusKm = undefined THEN defaultRadiusKm
                        ELSE serviceRadiusKm
            status == dbStatus
            all == getSuburbsWithPopulation(status, center.lat, center.lng, radiusKm)
        IN  /\ ~all.threw
            /\ selection' = [called |-> TRUE, suburbs |-> all.value, count |-> count,
                             result |-> smartSelectLocations(all.value, count)]
            /\ backendsQueried' = backendsQueried \cup {footerBackend}
            /\ cachedSuburbs' = IF useStaticData
                                THEN Some(loadSuburbs(cachedSuburbs, suburbsData,
                                                      siteState))
                                ELSE cachedSuburbs
            /\ UNCHANGED <<suburbsData, siteState, liveVars, callVars, configVars,
                           footer, cacheVars, spintaxVars, templateVars, env, builderUseStaticData,
                           build, scriptVars>>

InitFooter ==
    /\ useStaticData \in BOOLEAN
    /\ IF useStaticData
       THEN /\ suburbsData \in {Null} \cup {Some(exportSuburbs(rows)) : rows \in FooterRegions}
            /\ dbStatus = "unconfigured"
            /\ dbRows = <<>>
       ELSE /\ suburbsData = Null
            /\ dbStatus \in {"unconfigured", "ok"}
            /\ dbRows \in FooterRegions
    /\ cachedSuburbs = Null
    /\ siteState = "SA"
    /\ call = NoCall
    /\ centersQueried = {}
    /\ envCenter \in {Null, Some([lat |-> -890, lng |-> 180])}
    /\ serviceRadiusKm \in {undefined, 20}
    /\ footerFeaturedSuburbs \in FeaturedLists
    /\ mainLocation = IF envCenter.isNull THEN "" ELSE "Glenelg"
    /\ footer = [called |-> FALSE]
    /\ selection = [called |-> FALSE]
    /\ IdleCache
    /\ IdleSpintax
    /\ IdlePages

NextFooter ==
    \/ GetFooterLocations
    \/ SmartSelectLocations

SpecFooter == InitFooter /\ [][NextFooter]_vars

----------------------------------------------------------------------------
(* footer-locations.ts, footer-data.ts, google-places.ts: the cached getters, *)
(* called by the components of the pages that are rendered                 *)

\* How many calls may be pending at once.
NumCallers == 2

Callers == 1..NumCallers

\* A call that has not started, or has returned and may start again.
NotCalling(c) == callers[c].pc \in {"idle", "returned"}

\* The synchronous part of getCachedFooterLocations: a null cache starts
\* getFooterLocations and awaits it, anything else is returned.
locationsEntered == IF cachedFooterLocations.isNull THEN "computing" ELSE "ready"

\* The synchronous part of getCachedMapEmbedConfig.
mapConfigEntered == IF cachedMapConfig.isNull THEN "computing" ELSE "ready"

\* getCachedFooterData up to its await.
CallGetCachedFooterData ==
    \E c \in Callers :
        /\ NotCalling(c)
        /\ IF ~cachedData.isNull
           THEN /\ callers' = [callers EXCEPT ![c] =
                       [entry |-> "data", pc |-> "returned", locations |-> "ready",
                        mapConfig |-> "ready", value |-> cachedData.val.footerLocations]]
                /\ UNCHANGED computations
           ELSE /\ callers' = [callers EXCEPT ![c] =
                       [entry |-> "data", pc |-> "awaiting",
                        locations |-> locationsEntered, mapConfig |-> mapConfigEntered,
                        value |-> IF cachedFooterLocations.isNull THEN <<>>
                                  ELSE cachedFooterLocations.val]]
                /\ computations' = IF cachedFooterLocations.isNull
                                   THEN computations + 1 ELSE computations
        /\ UNCHANGED <<staticVars, liveVars, callVars, configVars, footerVars,
                       cachedFooterLocations, cachedData, cachedMapConfig, spintaxVars, templateVars, pageVars,
                       scriptVars>>

\* getCachedFooterLocations up to its await, or to its return.
CallGetCachedFooterLocations ==
    \E c \in Callers :
        /\ NotCalling(c)
        /\ IF ~cachedFooterLocations.isNull
           THEN /\ callers' = [callers EXCEPT ![c] =
                       [entry |-> "locations", pc |-> "returned", locations |-> "ready",
                        mapConfig |-> "ready", value |-> cachedFooterLocations.val]]
                /\ UNCHANGED computations
           ELSE /\ callers' = [callers EXCEPT ![c] =
                       [entry |-> "locations", pc |-> "awaiting",
                        locations |-> "computing", mapConfig |-> "ready",
                        value |-> <<>>]]
                /\ computations' = computations + 1
        /\ UNCHANGED <<staticVars, liveVars, callVars, configVars, footerVars,
                       cachedFooterLocations, cachedData, cachedMapConfig, spintaxVars, templateVars, pageVars,
                       scriptVars>>

\* The getFooterLocations a caller started resolves: the rest of
\* getCachedFooterLocations stores and returns the list.
FooterLocationsResolve ==
    \E c \in Callers, status1 \in QueryStatuses, status2 \in QueryStatuses :
        LET result == getFooterLocations(status1, status2)
        IN  /\ callers[c].pc = "awaiting"
            /\ callers[c].locations = "computing"
            /\ footer' = [called |-> TRUE, result |-> result]
            /\ cachedFooterLocations' = Some(result.value)
            /\ backendsQueried' = backendsQueried \cup {footerBackend}
            /\ callers' = [callers EXCEPT
                   ![c].locations = "ready",
                   ![c].value = result.value,
                   ![c].pc = IF callers[c].entry = "locations" THEN "returned"
                             ELSE "awaiting"]
            /\ cachedSuburbs' = IF useStaticData
                                THEN Some(loadSuburbs(cachedSuburbs, suburbsData,
                                                      siteState))
                                ELSE cachedSuburbs
            /\ UNCHANGED <<suburbsData, siteState, liveVars, callVars, configVars,
                           selection, cachedData, cachedMapConfig, computations,
                           spintaxVars, templateVars, env, builderUseStaticData, build,
                           scriptVars>>

\* The getMapEmbedConfig a caller started resolves.
MapConfigResolves ==
    \E c \in Callers :
        /\ callers[c].pc = "awaiting"
        /\ callers[c].mapConfig = "computing"
        /\ cachedMapConfig' = Some("mapConfig")
        /\ callers' = [callers EXCEPT ![c].mapConfig = "ready"]
        /\ UNCHANGED <<staticVars, liveVars, callVars, configVars, footerVars,
                       cachedFooterLocations, cachedData, computations, spintaxVars, templateVars, pageVars,
                       scriptVars>>

\* Promise.all resolved: the rest of getCachedFooterData stores and returns
\* the footer data.
FooterDataAssembled ==
    \E c \in Callers :
        /\ callers[c].entry = "data"
        /\ callers[c].pc = "awaiting"
        /\ callers[c].locations = "ready"
        /\ callers[c].mapConfig = "ready"
        /\ cachedData' = Some([footerLocations |-> callers[c].value,
                               mapConfig |-> cachedMapConfig.val])
        /\ callers' = [callers EXCEPT ![c].pc = "returned"]
        /\ UNCHANGED <<staticVars, liveVars, callVars, configVars, footerVars,
                       cachedFooterLocations, cachedMapConfig, computations,
                       spintaxVars, templateVars, pageVars, scriptVars>>

InitCache ==
    /\ useStaticData = FALSE
    /\ suburbsData = Null
    /\ cachedSuburbs = Null
    /\ siteState = "SA"
    /\ dbStatus = "ok"
    /\ dbRows = Region(3, 1)
    /\ call = NoCall
    /\ centersQueried = {}
    /\ IdleConfig
    /\ footer = [called |-> FALSE]
    /\ selection = [called |-> FALSE]
    /\ cachedFooterLocations = Null
    /\ cachedData = Null
    /\ cachedMapConfig = Null
    /\ callers = [c \in Callers |->
                     [entry |-> "none", pc |-> "idle", locations |-> "ready",
                      mapConfig |-> "ready", value |-> <<>>]]
    /\ computations = 0
    /\ IdleSpintax
    /\ IdlePages

NextCache ==
    \/ CallGetCachedFooterData
    \/ CallGetCachedFooterLocations
    \/ FooterLocationsResolve
    \/ MapConfigResolves
    \/ FooterDataAssembled

SpecCache == InitCache /\ [][NextCache]_vars

----------------------------------------------------------------------------
(* Properties of the footer selection *)

min(a, b) == IF a < b THEN a ELSE b

\* The ids of the suburbs of a list of footer entries.
entryIds(entries) == {entries[i].suburb.id : i \in 1..Len(entries)}

\* C2: getFooterLocations never raises and never returns an empty list,
\* whatever the repository answers and whether or not a manual list is
\* configured.
C2_NeverRaisesNeverEmpty ==
    footer.called => ~footer.result.threw /\ footer.result.value # <<>>

\* C4: the list getFooterLocations returns never holds two entries with the
\* same suburb id, on any path.
C4_NoDuplicateIds ==
    footer.called =>
        \A i, j \in 1..Len(footer.result.value) :
            i # j => footer.result.value[i].suburb.id # footer.result.value[j].suburb.id

\* A manual list of which some suburbs are valid, supplemented by scored
\* picks up to the full footer.
C4_Witness ==
    /\ footer.called
    /\ footer.result.manual
    /\ ~footer.result.caught
    /\ Len(footer.result.valid) > 0
    /\ Len(footer.result.valid) < footerCount
    /\ Len(footer.result.value) = footerCount

\* The suburbs the first loop of the recorded selection picked.
constrainedOf(sel) ==
    LET scored == scoredSuburbs(sel.suburbs)
        constrained == constrainedSelection(scored, sel.count)
    IN  [k \in 1..Len(constrained) |-> scored[constrained[k]].suburb]

\* C5: smartSelectLocations returns exactly min(count, n) of the n
\* candidates; it starts with the picks of the constrained pass, and when
\* these are fewer than count every suburb appended after them scores at
\* least as high as every candidate left out.
C5_ExactCountWithBackfill ==
    selection.called =>
        LET n == Len(selection.suburbs)
            result == selection.result
            constrained == constrainedOf(selection)
            resultIds == {result[i].id : i \in 1..Len(result)}
        IN  /\ Len(result) = min(selection.count, n)
            /\ Range(result) \subseteq Range(selection.suburbs)
            /\ Cardinality(resultIds) = Len(result)
            /\ Len(constrained) <= Len(result)
            /\ SubSeq(result, 1, Len(constrained)) = constrained
            /\ \A i \in (Len(constrained) + 1)..Len(result) :
                   \A c \in 1..n :
                       selection.suburbs[c].id \notin resultIds
                           => scoreSuburb(selection.suburbs[c]) <= scoreSuburb(result[i])

\* Eleven suburbs are asked of at least eleven candidates, the constrained
\* pass picks fewer, and the rest is appended.
C5_Witness ==
    /\ selection.called
    /\ selection.count = footerCount
    /\ Len(selection.suburbs) > footerCount
    /\ Len(constrainedOf(selection)) < footerCount
    /\ Len(selection.result) = footerCount

\* The suburbs of the manual list the repository resolved whose distance
\* from the center, rounded to a tenth of a kilometre, is within the radius.
validManual ==
    SelectSeq(footer.result.resolved, LAMBDA s1 :
        round1(calculateDistance(footer.result.center.lat, footer.result.center.lng,
                                 s1.latitude, s1.longitude))
            <= Km(footer.result.radiusKm))

\* C6 as stated: with a manual list configured, every resolved suburb within
\* the radius is in the returned list, however many names are configured.
C6_EveryValidManualSuburbAppears ==
    footer.called /\ footer.result.manual /\ ~footer.result.caught =>
        \A v \in 1..Len(validManual) :
            validManual[v].id \in entryIds(footer.result.value)

\* C6: with a manual list configured, the returned list starts with the
\* first eleven (or all, if fewer) of the resolved suburbs within the
\* radius, in repository order, and scored picks only fill the slots after
\* them.
C6_FirstElevenValidManualSuburbsLead ==
    footer.called /\ footer.result.manual /\ ~footer.result.caught =>
        LET value == footer.result.value
            k == min(footerCount, Len(validManual))
        IN  /\ Len(value) >= k
            /\ Len(value) <= footerCount
            /\ \A i \in 1..k : value[i].suburb.id = validManual[i].id
            /\ \A i \in (k + 1)..Len(value) :
                   value[i].suburb.id \notin {validManual[v].id : v \in 1..Len(validManual)}

\* Some but not all slots are taken by manual suburbs and scored picks fill
\* the others.
C6_Witness ==
    /\ footer.called
    /\ footer.result.manual
    /\ ~footer.result.caught
    /\ Len(validManual) > 1
    /\ Len(validManual) < footerCount
    /\ Len(footer.result.value) > Len(validManual)

\* C3: within one build process getFooterLocations is started at most once,
\* however the calls of getCachedFooterLocations and getCachedFooterData
\* overlap.
C3_ComputedAtMostOnce == computations <= 1

----------------------------------------------------------------------------
(* spintax.ts: numbers *)

\* A 32-bit integer is kept as two 16-bit halves, a larger natural number
\* as its digits in base 2^14, lowest first.
Word == 65536

\* The printable ASCII characters from the space (32) to the underscore
\* (95), and from a (97) to the tilde (126).
asciiLow ==
    " !\"#$%&'()*+,-./0123456789:;<=>?@ABCDEFGHIJKLMNOPQRSTUVWXYZ[\\]^_"

asciiHigh == "abcdefghijklmnopqrstuvwxyz{|}~"

\* str.charCodeAt(i), for these characters.
charCodeAt(c) ==
    IF indexOf(asciiLow, c) > 0 THEN 31 + indexOf(asciiLow, c)
    ELSE 96 + indexOf(asciiHigh, c)

\* hash = ((hash << 5) - hash) + char; hash = hash & hash
hashStep(hash, code) ==
    [hi |-> (31 * hash.hi + ((31 * hash.lo + code) \div Word)) % Word,
     lo |-> (31 * hash.lo + code) % Word]

\* The hash after the first n characters of the loop.
RECURSIVE hashLoop(_, _)
hashLoop(str, n) ==
    IF n = 0 THEN [hi |-> 0, lo |-> 0]
    ELSE hashStep(hashLoop(str, n - 1), charCodeAt(charAt(str, n)))

\* Math.abs of the 32-bit integer with the given bits.
absInt32(hash) ==
    IF hash.hi < Word \div 2 THEN hash
    ELSE [hi |-> (Word - hash.hi - (IF hash.lo = 0 THEN 0 ELSE 1)) % Word,
          lo |-> (Word - hash.lo) % Word]

hashCode(str) == absInt32(hashLoop(str, Len(str)))

\* hash % n for a small n.
hashMod(hash, n) == ((hash.hi % n) * (Word % n) + (hash.lo % n)) % n

Digit == 16384

\* seed + iterations, in base 2^14.
seedPlus(seed, iterations) ==
    LET d0 == (seed.lo % Digit) + iterations
        d1 == (seed.lo \div Digit) + (seed.hi % 4096) * 4 + (d0 \div Digit)
        d2 == (seed.hi \div 4096) + (d1 \div Digit)
    IN  <<d0 % Digit, d1 % Digit, d2>>

\* 2654435761 in base 2^14.
multiplier == <<14769, 14557, 9>>

\* The product of two numbers of three digits: five digits, the highest
\* one not reduced.
times(a, b) ==
    LET c0 == a[1] * b[1]
        c1 == a[1] * b[2] + a[2] * b[1] + (c0 \div Digit)
        c2 == a[1] * b[3] + a[2] * b[2] + a[3] * b[1] + (c1 \div Digit)
        c3 == a[2] * b[3] + a[3] * b[2] + (c2 \div Digit)
        c4 == a[3] * b[3] + (c3 \div Digit)
    IN  <<c0 % Digit, c1 % Digit, c2 % Digit, c3 % Digit, c4>>

\* The number of binary digits of n < 2^15.
bitLength(n) == CHOOSE k \in 0..15 : 2^k > n /\ (k = 0 \/ 2^(k - 1) <= n)

\* The number of binary digits of a number in base 2^14.
bitLengthOf(digits) ==
    LET nonZero == {i \in 1..Len(digits) : digits[i] # 0}
        top == CHOOSE i \in nonZero : \A j \in nonZero : j <= i
    IN  IF nonZero = {} THEN 0 ELSE 14 * (top - 1) + bitLength(digits[top])

\* The number as an IEEE 754 double holds it: 53 significant binary digits,
\* rounded to nearest, ties to even.  A product of two 32-bit numbers loses
\* at most 11 digits, all of them in the lowest digit of base 2^14; that
\* digit is not reduced after the rounding.
toDouble(digits) ==
    LET drop == bitLengthOf(digits) - 53
        low == digits[1] % (2^drop)
        half == 2^(drop - 1)
        odd == ((digits[1] \div (2^drop)) % 2) = 1
        roundUp == low > half \/ (low = half /\ odd)
    IN  IF drop <= 0 THEN digits
        ELSE [digits EXCEPT ![1] = @ - low + (IF roundUp THEN 2^drop ELSE 0)]

\* number % n for a small n.
modDigits(digits, n) ==
    LET p == Digit % n
    IN  ((digits[1] % n) + (digits[2] % n) * p + (digits[3] % n) * ((p * p) % n)
         + (digits[4] % n) * ((p * p * p) % n)
         + (digits[5] % n) * ((p * p * p * p) % n)) % n

\* Math.abs((seed + iterations) * 2654435761) % options.length
spintaxIndex(seed, iterations, length) ==
    LET sums == {seedPlus(seed, iterations)}
        products == {times(sum, multiplier) : sum \in sums}
        doubles == {toDouble(product) : product \in products}
    IN  CHOOSE index \in {modDigits(double, length) : double \in doubles} : TRUE

----------------------------------------------------------------------------
(* spintax.ts: LocationSpintax.  Templates and data hold no '$', which     *)
(* String.prototype.replace reads as a pattern in a replacement string.    *)

maxIterations == 100

startsWith(text, key) ==
    Len(text) >= Len(key) /\ SubSeq(text, 1, Len(key)) = key

dropFirst(text, n) == SubSeq(text, n + 1, Len(text))

\* How many of the leading characters of a text are digits.
RECURSIVE digitRun(_)
digitRun(text) ==
    IF text # "" /\ charAt(text, 1) \in {"0", "1", "2", "3", "4", "5", "6", "7", "8", "9"}
    THEN 1 + digitRun(Tail(text))
    ELSE 0

RECURSIVE parseInt(_, _)
parseInt(digits, acc) ==
    IF digits = "" THEN acc
    ELSE parseInt(Tail(digits), 10 * acc + (charCodeAt(charAt(digits, 1)) - 48))

RECURSIVE join(_, _)
join(parts, separator) ==
    IF parts = <<>> THEN ""
    ELSE IF Len(parts) = 1 THEN parts[1]
    ELSE parts[1] \o separator \o join(Tail(parts), separator)

\* str.split('|')
splitBars(text) ==
    LET bars == {k \in 1..Len(text) : charAt(text, k) = "|"}
        bar(j) == IF j = 0 THEN 0
                  ELSE IF j > Cardinality(bars) THEN Len(text) + 1
                  ELSE CHOOSE k \in bars : Cardinality({b \in bars : b <= k}) = j
    IN  [j \in 1..(Cardinality(bars) + 1) |-> SubSeq(text, bar(j - 1) + 1, bar(j) - 1)]

\* text.replace(new RegExp(escaped key, 'g'), value)
RECURSIVE replaceAll(_, _, _)
replaceAll(text, key, value) ==
    IF Len(text) < Len(key) THEN text
    ELSE LET i == indexOf(text, key)
         IN  IF i = 0 THEN text
             ELSE SubSeq(text, 1, i - 1) \o value
                  \o replaceAll(dropFirst(text, i + Len(key) - 1), key, value)

\* The names of a list of suburbs.
namesOf(suburbs) == [i \in 1..Len(suburbs) |-> suburbs[i].name]

\* The first match of /\{\{nearbySuburbs:(\d+)\}\}/ in a text: where it
\* starts, how many digits it holds; start 0 when there is none.
matchNearbySuburbs(text) ==
    LET prefix == "{{nearbySuburbs:"
        digitsAt(i) == digitRun(dropFirst(text, i + Len(prefix) - 1))
        hits == {i \in 1..Len(text) :
                    /\ startsWith(dropFirst(text, i - 1), prefix)
                    /\ digitsAt(i) > 0
                    /\ startsWith(dropFirst(text, i + Len(prefix) + digitsAt(i) - 1), "}}")}
    IN  IF hits = {} THEN [start |-> 0, digits |-> 0]
        ELSE [start |-> Min(hits), digits |-> digitsAt(Min(hits))]

\* text.replace(/\{\{nearbySuburbs:(\d+)\}\}/g, ...)
RECURSIVE replaceNearbySuburbs(_, _)
replaceNearbySuburbs(text, nearbySuburbs) ==
    LET match == matchNearbySuburbs(text)
        digitsFrom == match.start + 16
        limit == parseInt(SubSeq(text, digitsFrom, digitsFrom + match.digits - 1), 0)
    IN  IF text = "" \/ match.start = 0 THEN text
        ELSE SubSeq(text, 1, match.start - 1)
             \o (IF nearbySuburbs = <<>> THEN "surrounding areas"
                 ELSE join(namesOf(slice0(nearbySuburbs, limit)), ", "))
             \o replaceNearbySuburbs(dropFirst(text, digitsFrom + match.digits + 1),
                                     nearbySuburbs)

\* The k-th number a random stream yields, below n.
draw(stream, k, n) == stream[((k - 1) % Len(stream)) + 1] % n

\* text.replace(/\{\{randomNearby\}\}/g, ...): with a seed every occurrence
\* gets the suburb the seed selects, without one each gets the suburb
\* Math.random selects.
RECURSIVE replaceRandomNearby(_, _, _, _, _)
replaceRandomNearby(text, nearbySuburbs, seed, random, k) ==
    LET key == "{{randomNearby}}"
        i == indexOf(text, key)
        index == IF seed # ""
                 THEN hashMod(hashCode(seed \o "nearby"), Len(nearbySuburbs))
                 ELSE draw(random, k, Len(nearbySuburbs))
    IN  IF Len(text) < Len(key) \/ i = 0 THEN text
        ELSE SubSeq(text, 1, i - 1)
             \o (IF nearbySuburbs = <<>> THEN "a nearby area"
                 ELSE nearbySuburbs[index + 1].name)
             \o replaceRandomNearby(dropFirst(text, i + Len(key) - 1), nearbySuburbs,
                                    seed, random, k + 1)

\* distanceKm.toString(), of a distance in hundredths of a kilometre.
distanceToString(distanceKm) ==
    LET whole == ToString(distanceKm \div 100)
        hundredths == distanceKm % 100
    IN  IF hundredths = 0 THEN whole
        ELSE IF hundredths % 10 = 0 THEN whole \o "." \o ToString(hundredths \div 10)
        ELSE whole \o "." \o ToString(hundredths \div 10) \o ToString(hundredths % 10)

getDirectionText(direction) ==
    CASE direction = "N" -> "north"
      [] direction = "NE" -> "northeast"
      [] direction = "E" -> "east"
      [] direction = "SE" -> "southeast"
      [] direction = "S" -> "south"
      [] direction = "SW" -> "southwest"
      [] direction = "W" -> "west"
      [] direction = "NW" -> "northwest"
      [] OTHER -> toLowerCase(direction)

\* The standard placeholders, in the order Object.entries yields them.
replacements(data) ==
    <<[key |-> "{{suburb}}", value |-> data.suburb.name],
      [key |-> "{{postcode}}", value |-> data.suburb.postcode],
      [key |-> "{{state}}", value |-> data.suburb.state],
      [key |-> "{{distance}}", value |-> distanceToString(data.suburb.distanceKm)],
      [key |-> "{{direction}}", value |-> getDirectionText(data.suburb.direction)],
      [key |-> "{{businessName}}", value |-> data.businessName],
      [key |-> "{{serviceRadius}}", value |-> ToString(data.serviceRadius)]>>

\* Object.entries(replacements).forEach(...): one replacement after the
\* other, each over the result of the one before.
replaceStandard(text, pairs) ==
    LET after1 == replaceAll(text, pairs[1].key, pairs[1].value)
        after2 == replaceAll(after1, pairs[2].key, pairs[2].value)
        after3 == replaceAll(after2, pairs[3].key, pairs[3].value)
        after4 == replaceAll(after3, pairs[4].key, pairs[4].value)
        after5 == replaceAll(after4, pairs[5].key, pairs[5].value)
        after6 == replaceAll(after5, pairs[6].key, pairs[6].value)
    IN  replaceAll(after6, pairs[7].key, pairs[7].value)

replacePlaceholders(text, data, seed, random) ==
    LET postcode == data.suburb.postcode
        km == data.suburb.distanceKm
        step1 == replaceNearbySuburbs(text, data.nearbySuburbs)
        step2 == replaceRandomNearby(step1, data.nearbySuburbs, seed, random, 1)
        step3 == replaceAll(step2, "{{postcodeWithComma}}",
                            IF postcode # "" THEN ", " \o postcode ELSE "")
        step4 == replaceAll(step3, "{{postcodeSpace}}",
                            IF postcode # "" THEN " " \o postcode ELSE "")
        step5 == replaceAll(step4, "{{distanceFormatted}}",
                            IF km < Km(1) THEN "less than 1km"
                            ELSE distanceToString(km) \o "km")
    IN  IF text = "" THEN "" ELSE replaceStandard(step5, replacements(data))

\* The first brace after position i, 0 when there is none.
braceAfter(text, i) ==
    LET braces == {k \in (i + 1)..Len(text) : charAt(text, k) \in {"{", "}"}}
    IN  IF braces = {} THEN 0 ELSE Min(braces)

\* text.match(/\{([^{}]*\|[^{}]*)\}/): the first '{' that is followed, with
\* no brace but a bar in between, by a '}'; the positions of the two braces,
\* start 0 when there is no match.
matchSpintax(text) ==
    LET starts == {i \in 1..Len(text) :
                      /\ charAt(text, i) = "{"
                      /\ braceAfter(text, i) > 0
                      /\ charAt(text, braceAfter(text, i)) = "}"
                      /\ \E k \in (i + 1)..(braceAfter(text, i) - 1) :
                             charAt(text, k) = "|"}
    IN  IF starts = {} THEN [start |-> 0, end |-> 0]
        ELSE [start |-> Min(starts), end |-> braceAfter(text, Min(starts))]

\* The text with the matched group replaced by one of its options.
spun(text, match, index) ==
    LET options == splitBars(SubSeq(text, match.start + 1, match.end - 1))
    IN  SubSeq(text, 1, match.start - 1) \o options[(index % Len(options)) + 1]
        \o dropFirst(text, match.end)

optionCount(text, match) ==
    Len(splitBars(SubSeq(text, match.start + 1, match.end - 1)))

\* The loop of processSpintaxWithSeed, after `iterations' rounds.
RECURSIVE processSpintaxFrom(_, _, _)
processSpintaxFrom(text, seed, iterations) ==
    IF ~(includes(text, "{") /\ includes(text, "|") /\ iterations < maxIterations)
    THEN text
    ELSE LET match == matchSpintax(text)
         IN  IF match.start = 0 THEN text
             ELSE processSpintaxFrom(
                      spun(text, match,
                           spintaxIndex(seed, iterations + 1, optionCount(text, match))),
                      seed, iterations + 1)

processSpintaxWithSeed(text, seed) == processSpintaxFrom(text, seed, 0)

\* new Spinner(text).unspinRandom() of cnc-spintax: every group is replaced
\* by one of its options, chosen at random.
RECURSIVE unspinRandom(_, _, _)
unspinRandom(text, random, k) ==
    LET match == matchSpintax(text)
    IN  IF match.start = 0 THEN text
        ELSE unspinRandom(spun(text, match, draw(random, k, optionCount(text, match))),
                          random, k + 1)

\* generateContent of new LocationSpintax(seed); random holds what
\* Math.random yields for the placeholders and for the spinner.
generateContent(seed, template, data, random) ==
    LET processed == replacePlaceholders(template, data, seed, random.nearby)
    IN  IF seed # "" THEN processSpintaxWithSeed(processed, hashCode(seed))
        ELSE unspinRandom(processed, random.spinner, 1)

----------------------------------------------------------------------------
(* Content generated again and again from one seed, template and location *)

\* How many times content is generated from the same inputs.
MaxRuns == 2

\* How many numbers a random stream holds before it repeats.
MaxDraws == 2

\* The data of the page of the i-th suburb of a region: the suburb and the
\* suburbs next to it, as buildLocationPages collects them.
locationData(rows, i) ==
    LET suburbs == live_getSuburbsWithinRadius("ok", rows, 0, 0, defaultRadiusKm).value
        suburb == suburbs[i]
    IN  [suburb |-> suburb,
         nearbySuburbs |-> live_getNearbySuburbs("ok", rows, suburb.latitude,
                                                 suburb.longitude, 9, suburb.id).value,
         businessName |-> "Roof Pros",
         serviceRadius |-> defaultRadiusKm]

\* A suburb with a postcode and neighbours, one without a postcode, and one
\* that has no neighbour.
SpinData ==
    {locationData(Region(5, 1), 2), locationData(Region(5, 1), 5),
     locationData(Region(1, 1), 1)}

\* No seed, and seeds as short as slugs can be.
Seeds == {"", "a-sa", "glenelg-sa"}

Templates ==
    {"",
     "{Hello|Hi|Hey} {{suburb}}{{postcodeWithComma}}",
     "{{{randomNearby}}|{{suburb}}} {a|{b|c}}",
     "Near {{nearbySuburbs:2}}, {{distanceFormatted}} {{direction}} of {{businessName}}",
     "{{randomNearby}} {or|and} {{randomNearby}}"}

RandomStreams == [1..MaxDraws -> 0..2]

GenerateContent ==
    \E nearby \in RandomStreams, spinner \in RandomStreams :
        /\ Len(outputs) < MaxRuns
        /\ outputs' = Append(outputs,
                             generateContent(spin.seed, spin.template, spin.data,
                                             [nearby |-> nearby, spinner |-> spinner]))
        /\ UNCHANGED <<staticVars, liveVars, callVars, configVars, footerVars,
                       cacheVars, spin, pageVars, templateVars, scriptVars>>

InitSpintax ==
    /\ suburbsData = Null
    /\ cachedSuburbs = Null
    /\ siteState = "SA"
    /\ dbStatus = "ok"
    /\ dbRows = <<>>
    /\ call = NoCall
    /\ centersQueried = {}
    /\ useStaticData = FALSE
    /\ IdleConfig
    /\ footer = [called |-> FALSE]
    /\ selection = [called |-> FALSE]
    /\ IdleCache
    /\ spin \in [seed : Seeds, template : Templates, data : SpinData]
    /\ outputs = <<>>
    /\ IdlePages

NextSpintax == GenerateContent

SpecSpintax == InitSpintax /\ [][NextSpintax]_vars

\* C1: content generated twice from the same seed, template and data is the
\* same string, whatever the seed.
C1_SameInputsSameOutput ==
    \A i, j \in 1..Len(outputs) : outputs[i] = outputs[j]

----------------------------------------------------------------------------
(* processSpintaxWithSeed, one round of its loop after the other           *)

\* A replacement string as String.prototype.replace reads it: $$ is a
\* dollar sign, $& the matched text, $' the text after the match; a pattern
\* that needs a capture group stays as it is written.  The pattern for the
\* text before the match is not modelled: no text below holds it.
expandReplacement(replacement, matched, after) ==
    LET dollarsBefore(k) ==
            Cardinality({j \in 1..(k - 1) :
                            \A m \in j..(k - 1) : charAt(replacement, m) = "$"})
        startsPattern(k) == charAt(replacement, k) = "$" /\ dollarsBefore(k) % 2 = 0
        piece(k) ==
            LET c == charAt(replacement, k)
                next == charAt(replacement, k + 1)
            IN  IF startsPattern(k)
                THEN CASE next = "&" -> matched
                       [] next = "'" -> after
                       [] OTHER -> "$"
                ELSE IF k > 1 /\ startsPattern(k - 1) /\ c \in {"$", "&", "'"} THEN ""
                ELSE c
    IN  join([k \in 1..Len(replacement) |-> piece(k)], "")

\* text.replace(fullMatch, selected), fullMatch being the match of the
\* regular expression: the first occurrence of that string is the match.
replaceMatch(text, match, selected) ==
    LET fullMatch == SubSeq(text, match.start, match.end)
        after == dropFirst(text, match.end)
    IN  SubSeq(text, 1, match.start - 1)
        \o expandReplacement(selected, fullMatch, after) \o after

\* The condition of the loop without the test of the number of rounds.
loopContinues_uncapped(l) ==
    includes(l.text, "{") /\ includes(l.text, "|")

\* text.includes('{') && text.includes('|') && iterations < maxIterations
loopContinues(l) ==
    includes(l.text, "{") /\ includes(l.text, "|") /\ l.iterations < maxIterations

\* options[index] of the matched group, in the given round.
selectedOption(text, match, seed, iterations) ==
    LET options == splitBars(SubSeq(text, match.start + 1, match.end - 1))
    IN  options[spintaxIndex(seed, iterations, Len(options)) + 1]

\* Texts with groups, nested groups, braces that do not pair, no group at
\* all, and options that hold a replacement pattern.
LoopTexts ==
    {"", "a|b", "{a}", "{a|b}", "{a|{b|c}} {d|e}", "}{a|b}{", "{{a|b}", "{a|b}}|{",
     "{|}", "{a|b", "{$&|$&}", "x{$&y|$&y}", "{$$|$'}{c|d}"}

LoopSeeds == {"a-sa", "glenelg-sa"}

ProcessSpintaxWithSeed ==
    \E text \in LoopTexts, seed \in LoopSeeds :
        /\ loop.pc = "idle"
        /\ loop' = [pc |-> "looping", input |-> text, text |-> text,
                    seed |-> hashCode(seed), iterations |-> 0]
        /\ UNCHANGED <<staticVars, liveVars, callVars, configVars, footerVars,
                       cacheVars, spintaxVars, pageVars, processor, scriptVars>>

\* One evaluation of the loop condition, and one round when it holds:
\* iterations++, the match, the break when there is none, the replacement.
SpintaxRound ==
    /\ loop.pc = "looping"
    /\ IF ~loopContinues(loop)
       THEN loop' = [loop EXCEPT !.pc = "returned"]
       ELSE \E iterations \in {loop.iterations + 1}, match \in {matchSpintax(loop.text)} :
                IF match.start = 0
                THEN loop' = [loop EXCEPT !.pc = "returned", !.iterations = iterations]
                ELSE \E selected \in {selectedOption(loop.text, match, loop.seed,
                                                     iterations)} :
                         loop' = [loop EXCEPT
                                     !.text = replaceMatch(loop.text, match, selected),
                                     !.iterations = iterations]
    /\ UNCHANGED <<staticVars, liveVars, callVars, configVars, footerVars,
                   cacheVars, spintaxVars, pageVars, processor, scriptVars>>

InitLoop ==
    /\ suburbsData = Null
    /\ cachedSuburbs = Null
    /\ siteState = "SA"
    /\ dbStatus = "ok"
    /\ dbRows = <<>>
    /\ call = NoCall
    /\ centersQueried = {}
    /\ useStaticData = FALSE
    /\ IdleConfig
    /\ footer = [called |-> FALSE]
    /\ selection = [called |-> FALSE]
    /\ IdleCache
    /\ IdleSpintax
    /\ IdlePages

NextLoop == ProcessSpintaxWithSeed \/ SpintaxRound

\* The loop is run to its end: a call that has started is not abandoned.
SpecLoop == InitLoop /\ [][NextLoop]_vars /\ WF_vars(SpintaxRound)

\* C14: a call of processSpintaxWithSeed returns, whatever the braces of its
\* input; it never runs more than 100 rounds, and a group is left in what
\* it returns only when the 100 rounds were used.
C14_LoopTerminatesWithinCap ==
    /\ [](loop.pc # "idle" => loop.iterations <= maxIterations)
    /\ [](loop.pc = "returned" /\ matchSpintax(loop.text).start # 0
              => loop.iterations = maxIterations)
    /\ (loop.pc = "looping") ~> (loop.pc = "returned")

\* A call that used all the rounds and returned a text that still holds a
\* group.
C14_Witness ==
    /\ loop.pc = "returned"
    /\ loop.iterations = maxIterations
    /\ matchSpintax(loop.text).start # 0

----------------------------------------------------------------------------
(* generateContent of a seeded LocationSpintax: the placeholders, then the *)
(* loop of processSpintaxWithSeed                                          *)

\* The placeholders replacePlaceholders replaces, {{nearbySuburbs:N}} apart.
contextKeys ==
    {"{{randomNearby}}", "{{postcodeWithComma}}", "{{postcodeSpace}}",
     "{{distanceFormatted}}", "{{suburb}}", "{{postcode}}", "{{state}}", "{{distance}}",
     "{{direction}}", "{{businessName}}", "{{serviceRadius}}"}

\* A business name, one that holds spintax, and one that holds a placeholder.
BusinessNames == {"Roof Pros", "{Roof|Gutter} Pros", "Pros of {{suburb}}"}

ContentData ==
    {[d EXCEPT !.businessName = name] : d \in SpinData, name \in BusinessNames}

ContentTemplates ==
    {"{Hello|Hi} {{suburb}}{{postcodeSpace}}",
     "{Call|Ring} {{businessName}} near {{nearbySuburbs:2}}",
     "{{{randomNearby}}|{{suburb}}} {{distanceFormatted}} {{direction}}"}

\* generateContent with a seed, up to the call of processSpintaxWithSeed:
\* the loop starts on the text replacePlaceholders returns.
GenerateContentSeeded ==
    /\ loop.pc = "idle"
    /\ spin.seed # ""
    /\ loop' = [pc |-> "looping", input |-> spin.template,
                text |-> replacePlaceholders(spin.template, spin.data, spin.seed, <<0>>),
                seed |-> hashCode(spin.seed), iterations |-> 0]
    /\ UNCHANGED <<staticVars, liveVars, callVars, configVars, footerVars,
                   cacheVars, spintaxVars, pageVars, processor, scriptVars>>

InitContent ==
    /\ suburbsData = Null
    /\ cachedSuburbs = Null
    /\ siteState = "SA"
    /\ dbStatus = "ok"
    /\ dbRows = <<>>
    /\ call = NoCall
    /\ centersQueried = {}
    /\ useStaticData = FALSE
    /\ IdleConfig
    /\ footer = [called |-> FALSE]
    /\ selection = [called |-> FALSE]
    /\ IdleCache
    /\ spin \in [seed : LoopSeeds, template : ContentTemplates, data : ContentData]
    /\ outputs = <<>>
    /\ IdlePages

NextContent == GenerateContentSeeded \/ SpintaxRound

SpecContent == InitContent /\ [][NextContent]_vars

\* The text holds a placeholder that replacePlaceholders replaces.
holdsContextPlaceholder(text) ==
    \/ matchNearbySuburbs(text).start # 0
    \/ \E key \in contextKeys : includes(text, key)

\* C15: when the loop of processSpintaxWithSeed starts, the text holds none
\* of the placeholders the context replaces.
C15_NoPlaceholderWhenSpintaxRuns ==
    loop.pc = "looping" /\ loop.iterations = 0 => ~holdsContextPlaceholder(loop.text)

----------------------------------------------------------------------------
(* template-processor.ts.  Template data is the list of the keys of the    *)
(* object with their values, in the order Object.entries yields them; the  *)
(* values are strings without '$', and a key that is not set is not in the *)
(* list.                                                                   *)

pair(key, value) == [key |-> key, value |-> value]

\* data[key] is set to something other than the empty string.
truthy(data, key) == \E i \in 1..Len(data) : data[i].key = key /\ data[i].value # ""

\* data[key] of a key that is set.
valueOf(data, key) == data[CHOOSE i \in 1..Len(data) : data[i].key = key].value

\* data[key] || ''
valueOrEmpty(data, key) == IF truthy(data, key) THEN valueOf(data, key) ELSE ""

\* data[key] = value: a key that is set keeps its place, a new one is last.
setKey(data, key, value) ==
    IF \E i \in 1..Len(data) : data[i].key = key
    THEN [i \in 1..Len(data) |-> IF data[i].key = key THEN pair(key, value) ELSE data[i]]
    ELSE Append(data, pair(key, value))

\* { ...data, ...more }
RECURSIVE spread(_, _)
spread(data, more) ==
    IF more = <<>> THEN data
    ELSE spread(setKey(data, more[1].key, more[1].value), Tail(more))

\* phone.replace(/\D/g, '')
digitsOnly(phone) ==
    join([k \in 1..Len(phone) |->
             IF digitRun(charAt(phone, k)) = 1 THEN charAt(phone, k) ELSE ""], "")

\* computeDerivedValues with the legal jurisdiction set only when the data
\* does not supply one.
computeDerivedValues_keepsSupplied(data) ==
    LET located == IF /\ ~truthy(data, "mainLocation")
                      /\ truthy(data, "city")
                      /\ truthy(data, "state")
                      /\ truthy(data, "postcode")
                   THEN setKey(data, "mainLocation",
                               valueOf(data, "city") \o ", " \o valueOf(data, "state")
                               \o " " \o valueOf(data, "postcode"))
                   ELSE data
        phoned == IF ~truthy(located, "formattedPhone") /\ truthy(located, "phone")
                  THEN setKey(located, "formattedPhone",
                              digitsOnly(valueOf(located, "phone")))
                  ELSE located
        stated == IF truthy(phoned, "governingState") THEN phoned
                  ELSE setKey(phoned, "governingState", "Queensland")
    IN  IF truthy(stated, "governingCity") THEN stated
        ELSE setKey(stated, "governingCity", "Brisbane")

computeDerivedValues(data) ==
    LET located == IF /\ ~truthy(data, "mainLocation")
                      /\ truthy(data, "city")
                      /\ truthy(data, "state")
                      /\ truthy(data, "postcode")
                   THEN setKey(data, "mainLocation",
                               valueOf(data, "city") \o ", " \o valueOf(data, "state")
                               \o " " \o valueOf(data, "postcode"))
                   ELSE data
        phoned == IF ~truthy(located, "formattedPhone") /\ truthy(located, "phone")
                  THEN setKey(located, "formattedPhone",
                              digitsOnly(valueOf(located, "phone")))
                  ELSE located
    IN  setKey(setKey(phoned, "governingState", "Queensland"), "governingCity", "Brisbane")

\* String(value) of the suburb and of the list of suburbs a location
\* processor keeps in its data next to the strings.
objectEntries(p) ==
    (IF p.suburb.isNull THEN <<>> ELSE <<pair("suburb", "[object Object]")>>)
    \o (IF p.nearbySuburbs.isNull THEN <<>>
        ELSE <<pair("nearbySuburbs",
                    join([i \in 1..Len(p.nearbySuburbs.val) |-> "[object Object]"], ","))>>)

\* TemplateProcessor.processString: Object.entries(this.data).forEach(...),
\* each key replaced everywhere in the result of the keys before it.
RECURSIVE replaceEntries(_, _)
replaceEntries(str, entries) ==
    IF entries = <<>> THEN str
    ELSE replaceEntries(replaceAll(str, "{{" \o entries[1].key \o "}}", entries[1].value),
                        Tail(entries))

base_processString(p, str) == replaceEntries(str, objectEntries(p) \o p.data)

\* ServiceTemplateProcessor.processString
service_processString(p, str) ==
    LET step1 == replaceAll(str, "{{serviceTitle}}", valueOrEmpty(p.data, "title"))
        step2 == replaceAll(step1, "{{serviceDescription}}",
                            valueOrEmpty(p.data, "description"))
        step3 == replaceAll(step2, "{{serviceSlug}}", valueOrEmpty(p.data, "slug"))
        step4 == replaceAll(step3, "{{serviceImage}}", valueOrEmpty(p.data, "image"))
        step5 == replaceAll(step4, "{{serviceExcerpt}}", valueOrEmpty(p.data, "excerpt"))
    IN  base_processString(p, step5)

\* A value that may be undefined, as a template literal or a replacement
\* string shows it.
textOf(postcode) == IF postcode = "" THEN "undefined" ELSE postcode

\* str.replace(string, replacement): the first occurrence only.
replaceFirst(text, key, value) ==
    LET i == indexOf(text, key)
    IN  IF Len(text) < Len(key) \/ i = 0 THEN text
        ELSE SubSeq(text, 1, i - 1) \o value \o dropFirst(text, i + Len(key) - 1)

\* The location-specific replacements of LocationTemplateProcessor, before
\* the base processor: the suburb, {{nearbySuburbs:N}}, {{randomNearby}}.
\* A Suburb has no distance_km, lat or lng, so {{distance}} and
\* {{direction}} are left to the base processor.
locationReplacements(p, str, randomIndex) ==
    LET suburb == p.suburb.val
        step1 == replaceAll(str, "{{suburb}}", suburb.name)
        step2 == replaceAll(step1, "{{postcode}}", textOf(suburb.postcode))
        step3 == replaceAll(step2, "{{postcodeSpace}}", " " \o textOf(suburb.postcode))
        step4 == replaceAll(step3, "{{postcodeWithComma}}",
                            ", " \o textOf(suburb.postcode))
        step5 == replaceAll(step4, "{{state}}", suburb.state)
        located == IF p.suburb.isNull THEN str ELSE step5
        nearbyMatch == matchNearbySuburbs(located)
        digitsFrom == nearbyMatch.start + 16
        count == parseInt(SubSeq(located, digitsFrom, digitsFrom + nearbyMatch.digits - 1),
                          0)
        listed == IF nearbyMatch.start # 0 /\ ~p.nearbySuburbs.isNull
                  THEN replaceFirst(located,
                                    SubSeq(located, nearbyMatch.start,
                                           digitsFrom + nearbyMatch.digits + 1),
                                    join(namesOf(slice0(p.nearbySuburbs.val, count)),
                                         ", "))
                  ELSE located
    IN  IF /\ includes(listed, "{{randomNearby}}")
           /\ ~p.nearbySuburbs.isNull
           /\ Len(p.nearbySuburbs.val) > 0
        THEN replaceAll(listed, "{{randomNearby}}",
                        p.nearbySuburbs.val[randomIndex + 1].name)
        ELSE listed

\* LocationTemplateProcessor.processString
location_processString(p, str, randomIndex) ==
    base_processString(p, locationReplacements(p, str, randomIndex))

\* processString of the processor createTemplateProcessor made.
processString(p, str, randomIndex) ==
    CASE p.context = "service" -> service_processString(p, str)
      [] p.context = "location" -> location_processString(p, str, randomIndex)
      [] OTHER -> base_processString(p, str)

\* getData()
getData(p) == p.data

\* How many times the data of a processor is updated.
MaxUpdates == 1

Contexts == {"general", "service", "location"}

TemplateDatas ==
    {<<>>,
     <<pair("businessName", "Roof Pros"), pair("phone", "08 8000 1111")>>,
     <<pair("governingState", "NSW"), pair("businessName", "Roof Pros"),
       pair("governingCity", "Sydney")>>,
     <<pair("city", "Adelaide"), pair("state", "SA"), pair("postcode", "5000")>>,
     <<pair("title", "Roof Cleaning"), pair("slug", "roof-cleaning")>>}

DataUpdates ==
    {<<pair("governingState", "Victoria")>>,
     <<pair("businessName", "Gutter Pros"), pair("governingCity", "")>>}

\* No suburb, a suburb with a postcode, a suburb without one.
ProcessorSuburbs ==
    {Null, Some(locationData(Region(5, 1), 2).suburb),
     Some(locationData(Region(5, 1), 5).suburb)}

\* No list, an empty list, a list of four suburbs.
ProcessorNearby ==
    {Null, Some(<<>>), Some(locationData(Region(5, 1), 2).nearbySuburbs)}

ProcessorTemplates ==
    {"{{governingState}}, {{governingCity}}",
     "{{businessName}} in {{suburb}}{{postcodeSpace}}",
     "Roofs in {{suburb}}{{postcodeSpace}}",
     "{{suburb}}{{postcodeWithComma}}, {{state}}",
     "Near {{nearbySuburbs:2}}",
     "{{nearbySuburbs:1}} or {{nearbySuburbs:9}}",
     "{{serviceTitle}} under {{governingState}} law",
     "{{randomNearby}} {{mainLocation}} {{formattedPhone}}"}

\* createTemplateProcessor(context, data); a suburb and a list of nearby
\* suburbs are part of the data of a location processor only.
CreateTemplateProcessor ==
    \E context \in Contexts, data \in TemplateDatas,
       suburb \in ProcessorSuburbs, nearbySuburbs \in ProcessorNearby :
        /\ processor = Null
        /\ context # "location" => suburb = Null /\ nearbySuburbs = Null
        /\ processor' = Some([context |-> context,
                              data |-> computeDerivedValues(data),
                              suburb |-> suburb,
                              nearbySuburbs |-> nearbySuburbs,
                              updates |-> 0,
                              last |-> Null])
        /\ UNCHANGED <<staticVars, liveVars, callVars, configVars, footerVars,
                       cacheVars, spintaxVars, pageVars, loop, scriptVars>>

UpdateData ==
    \E data \in DataUpdates :
        /\ processor # Null
        /\ processor.val.updates < MaxUpdates
        /\ processor' = Some([processor.val EXCEPT
                                 !.data = computeDerivedValues(spread(@, data)),
                                 !.updates = @ + 1])
        /\ UNCHANGED <<staticVars, liveVars, callVars, configVars, footerVars,
                       cacheVars, spintaxVars, pageVars, loop, scriptVars>>

\* processString(str); randomIndex is Math.floor(Math.random() * Math.min(5,
\* nearbySuburbs.length)) where that is evaluated.
ProcessString ==
    \E str \in ProcessorTemplates, randomIndex \in 0..4 :
        /\ processor # Null
        /\ randomIndex < (IF processor.val.nearbySuburbs.isNull
                             \/ processor.val.nearbySuburbs.val = <<>>
                          THEN 1 ELSE Len(processor.val.nearbySuburbs.val))
        /\ processor' = Some([processor.val EXCEPT
                                 !.last = Some([str |-> str,
                                                result |-> processString(processor.val, str,
                                                                         randomIndex)])])
        /\ UNCHANGED <<staticVars, liveVars, callVars, configVars, footerVars,
                       cacheVars, spintaxVars, pageVars, loop, scriptVars>>

InitProcessor ==
    /\ suburbsData = Null
    /\ cachedSuburbs = Null
    /\ siteState = "SA"
    /\ dbStatus = "ok"
    /\ dbRows = <<>>
    /\ call = NoCall
    /\ centersQueried = {}
    /\ useStaticData = FALSE
    /\ IdleConfig
    /\ footer = [called |-> FALSE]
    /\ selection = [called |-> FALSE]
    /\ IdleCache
    /\ IdleSpintax
    /\ IdlePages

NextProcessor == CreateTemplateProcessor \/ UpdateData \/ ProcessString

SpecProcessor == InitProcessor /\ [][NextProcessor]_vars

\* The last call of processString of a location processor that has a
\* suburb and a list of nearby suburbs.
lastLocationCall ==
    /\ processor # Null
    /\ processor.val.context = "location"
    /\ ~processor.val.suburb.isNull
    /\ ~processor.val.nearbySuburbs.isNull
    /\ ~processor.val.last.isNull

\* C16: in what LocationTemplateProcessor.processString returns every
\* {{nearbySuburbs:N}} is replaced as LocationSpintax replaces it: by the
\* first min(N, length) names joined by ', ', by the fallback phrase when
\* the list is empty.
C16_ProcessorListsNearbySuburbs ==
    lastLocationCall /\ processor.val.last.val.str
                            \in {"Near {{nearbySuburbs:2}}",
                                 "{{nearbySuburbs:1}} or {{nearbySuburbs:9}}"}
        => processor.val.last.val.result
               = replaceNearbySuburbs(processor.val.last.val.str,
                                      processor.val.nearbySuburbs.val)

\* C17: LocationTemplateProcessor.processString turns {{postcodeSpace}}
\* into ' <postcode>' and {{postcodeWithComma}} into ', <postcode>', and
\* both into nothing when the suburb has no postcode.
C17_ProcessorPostcodeVariants ==
    lastLocationCall =>
        LET suburb == processor.val.suburb.val
            str == processor.val.last.val.str
            result == processor.val.last.val.result
        IN  /\ str = "{{suburb}}{{postcodeWithComma}}, {{state}}"
                => result = suburb.name
                            \o (IF suburb.postcode = "" THEN ""
                                ELSE ", " \o suburb.postcode)
                            \o ", " \o suburb.state
            /\ str = "Roofs in {{suburb}}{{postcodeSpace}}"
                => result = "Roofs in " \o suburb.name
                            \o (IF suburb.postcode = "" THEN ""
                                ELSE " " \o suburb.postcode)

----------------------------------------------------------------------------
(* location-builder.ts: buildLocationPages *)

batchSize == 5

\* The queries of the backend location-builder.ts selected.
getSuburbsWithinRadius(status, centerLat, centerLng, radiusKm) ==
    IF builderUseStaticData
    THEN Ok(static_getSuburbsWithinRadius(
                loadSuburbs(cachedSuburbs, suburbsData, siteState),
                centerLat, centerLng, radiusKm))
    ELSE live_getSuburbsWithinRadius(status, dbRows, centerLat, centerLng, radiusKm)

getNearbySuburbs(status, lat, lng, limit, excludeId) ==
    IF builderUseStaticData
    THEN Ok(static_getNearbySuburbs(
                loadSuburbs(cachedSuburbs, suburbsData, siteState),
                lat, lng, limit, excludeId))
    ELSE live_getNearbySuburbs(status, dbRows, lat, lng, limit, excludeId)

builderBackend == IF builderUseStaticData THEN "static" ELSE "live"

\* The closest maxLocations, the main location among them.
suburbsToProcess_unfiltered(found, maxLocations) ==
    IF Len(found) > maxLocations THEN slice0(found, maxLocations) ELSE found

\* The suburbs pages are built for: the closest maxLocations, without the
\* main location.
suburbsToProcess(found, maxLocations) ==
    LET limited == IF Len(found) > maxLocations THEN slice0(found, maxLocations)
                   ELSE found
        filteredSuburbs ==
            SelectSeq(limited, LAMBDA suburb :
                toLowerCase(suburb.name) # toLowerCase(mainLocation))
    IN  IF mainLocation # "" /\ Len(filteredSuburbs) < Len(limited)
        THEN filteredSuburbs ELSE limited

\* What the callback of batch.map returns for a suburb: the lookup's list,
\* or (catch block) an empty list.
pageEntry(suburb, outcome) ==
    [suburb |-> suburb,
     nearbySuburbs |-> IF outcome.threw THEN <<>> ELSE outcome.value,
     slug |-> generateLocationSlug(suburb),
     url |-> generateLocationUrl(suburb)]

\* Every suburb from position i on, in one batch.
batchOf_unbounded(suburbs, i) ==
    [j \in 1..(Len(suburbs) - i) |-> i + j]

\* suburbs.slice(i, i + batchSize), as positions in suburbs.
batchOf(suburbs, i) ==
    [j \in 1..(IF i + batchSize <= Len(suburbs) THEN batchSize ELSE Len(suburbs) - i)
        |-> i + j]

\* Results taken in the order the lookups completed.
batchResults_byArrival(batch, arrived) ==
    [j \in 1..Len(batch) |-> arrived[j].entry]

\* Results without the suburbs whose lookup brought no suburb.
batchResults_withoutFailed(batch, arrived) ==
    SelectSeq([j \in 1..Len(batch) |->
                  (CHOOSE a \in Range(arrived) : a.k = batch[j]).entry],
              LAMBDA entry : entry.nearbySuburbs # <<>>)

\* What Promise.all resolves to: the entry of every suburb of the batch, in
\* the order of the batch, whatever order the lookups completed in.
batchResults(batch, arrived) ==
    [j \in 1..Len(batch) |->
        (CHOOSE a \in Range(arrived) : a.k = batch[j]).entry]

\* The loop at the start of the batch that begins after position i: every
\* lookup of the batch is started; past the last suburb the pages are
\* returned.
enterBatch(b, i) ==
    IF i < Len(b.suburbs)
    THEN [b EXCEPT !.pc = "batch", !.i = i, !.arrived = <<>>,
                   !.pending = Range(batchOf(b.suburbs, i)),
                   !.lookups = [k \in 1..Len(b.suburbs) |->
                                   IF k \in Range(batchOf(b.suburbs, i))
                                   THEN b.lookups[k] + 1 ELSE b.lookups[k]]]
    ELSE [b EXCEPT !.pc = "done", !.i = i, !.pending = {}]

\* buildLocationPages up to its first pending lookups.
startBuild(found, maxLocations) ==
    LET suburbs == suburbsToProcess(found.value, maxLocations)
        empty == [pc |-> "done", suburbs |-> <<>>, i |-> 0, pending |-> {},
                  arrived |-> <<>>, lookups |-> <<>>, failed |-> {},
                  locationPages |-> <<>>]
    IN  IF found.threw \/ found.value = <<>> THEN empty
        ELSE enterBatch([empty EXCEPT !.suburbs = suburbs,
                                      !.lookups = [k \in 1..Len(suburbs) |-> 0]], 0)

\* SERVICE_RADIUS_KM and MAX_LOCATION_PAGES of the environment.
BuildRadiiKm == {defaultRadiusKm}

MaxLocationPages == {6, 100}

BuildLocationPages ==
    \E radiusKm \in BuildRadiiKm, maxLocations \in MaxLocationPages :
        LET center == getCenterLocation
            found == getSuburbsWithinRadius(dbStatus, center.lat, center.lng, radiusKm)
        IN  /\ build.pc = "idle"
            /\ build' = startBuild(found, maxLocations)
            /\ backendsQueried' = backendsQueried \cup {builderBackend}
            /\ cachedSuburbs' = IF builderUseStaticData
                                THEN Some(loadSuburbs(cachedSuburbs, suburbsData,
                                                      siteState))
                                ELSE cachedSuburbs
            /\ UNCHANGED <<suburbsData, siteState, liveVars, callVars, configVars,
                           footerVars, cacheVars, spintaxVars, templateVars, env,
                           builderUseStaticData, scriptVars>>

\* One pending lookup of the batch completes, in any order.
NearbyLookupCompletes ==
    \E k \in (IF build.pc = "batch" THEN build.pending ELSE {}) :
        LET suburb == build.suburbs[k]
            outcome == getNearbySuburbs(dbStatus, suburb.latitude, suburb.longitude,
                                        9, suburb.id)
            lookupFailed == outcome.threw \/ (~builderUseStaticData /\ dbStatus # "ok")
        IN  /\ build' = [build EXCEPT
                   !.pending = @ \ {k},
                   !.arrived = Append(@, [k |-> k, entry |-> pageEntry(suburb, outcome)]),
                   !.failed = IF lookupFailed THEN @ \cup {k} ELSE @]
            /\ UNCHANGED <<staticVars, liveVars, callVars, configVars, footerVars,
                           cacheVars, spintaxVars, templateVars, env, builderUseStaticData,
                           backendsQueried, scriptVars>>

\* Promise.all resolved: the results are pushed and the next batch starts.
BatchCompletes ==
    /\ build.pc = "batch"
    /\ build.pending = {}
    /\ build' = enterBatch(
           [build EXCEPT !.locationPages =
                @ \o batchResults(batchOf(build.suburbs, build.i), build.arrived)],
           build.i + batchSize)
    /\ backendsQueried' = backendsQueried \cup {builderBackend}
    /\ UNCHANGED <<staticVars, liveVars, callVars, configVars, footerVars, cacheVars,
                   spintaxVars, templateVars, env, builderUseStaticData, scriptVars>>

----------------------------------------------------------------------------
(* One process: the modules load under some environment, then the footer   *)
(* is selected and the location pages are built while the database comes   *)
(* and goes                                                                *)

Envs ==
    [POSTGIS_HOST : {"", "localhost", "db.example.com"},
     USE_STATIC_SUBURBS : {"", "true", "false"}]

InitBackend ==
    /\ env \in Envs
    /\ useStaticData = footerSelectsStatic(env)
    /\ builderUseStaticData = builderSelectsStatic(env)
    /\ suburbsData = Some(exportSuburbs(Region(3, 1)))
    /\ cachedSuburbs = Null
    /\ siteState = "SA"
    /\ dbStatus = IF env.POSTGIS_HOST = "" THEN "unconfigured" ELSE "ok"
    /\ dbRows = Region(3, 1)
    /\ call = NoCall
    /\ centersQueried = {}
    /\ IdleConfig
    /\ footer = [called |-> FALSE]
    /\ selection = [called |-> FALSE]
    /\ IdleCache
    /\ IdleSpintax
    /\ backendsQueried = {}
    /\ build = [pc |-> "idle"]
    /\ IdleTemplates

NextBackend ==
    \/ GetFooterLocations
    \/ BuildLocationPages
    \/ NearbyLookupCompletes
    \/ BatchCompletes
    \/ DbChanges

SpecBackend == InitBackend /\ [][NextBackend]_vars

----------------------------------------------------------------------------
(* The pages of a region of seven suburbs, built in two batches on the     *)
(* live backend while the database comes and goes                          *)

InitPages ==
    /\ env = envFor(FALSE)
    /\ useStaticData = footerSelectsStatic(env)
    /\ builderUseStaticData = builderSelectsStatic(env)
    /\ suburbsData = Null
    /\ cachedSuburbs = Null
    /\ siteState = "SA"
    /\ dbStatus = "ok"
    /\ dbRows = Region(7, 3)
    /\ call = NoCall
    /\ centersQueried = {}
    /\ IdleConfig
    /\ footer = [called |-> FALSE]
    /\ selection = [called |-> FALSE]
    /\ IdleCache
    /\ IdleSpintax
    /\ backendsQueried = {}
    /\ build = [pc |-> "idle"]
    /\ IdleTemplates

NextPages ==
    \/ BuildLocationPages
    \/ NearbyLookupCompletes
    \/ BatchCompletes
    \/ DbChanges

SpecPages == InitPages /\ [][NextPages]_vars

\* C19: the pages are those of the suburbs that were processed, nearest
\* first, one page per suburb and in the order of the suburbs, whatever
\* order the lookups of a batch completed in.
C19_PagesInInputOrder ==
    build.pc # "idle" =>
        /\ \A j \in 1..(Len(build.suburbs) - 1) :
               build.suburbs[j].distanceKm <= build.suburbs[j + 1].distanceKm
        /\ Len(build.locationPages) <= Len(build.suburbs)
        /\ \A j \in 1..Len(build.locationPages) :
               build.locationPages[j].suburb = build.suburbs[j]
        /\ build.pc = "done" => Len(build.locationPages) = Len(build.suburbs)

\* Seven pages were built, and the lookups of the last batch completed in
\* the reverse of the order they were started in.
C19_Witness ==
    /\ build.pc = "done"
    /\ Len(build.locationPages) = 7
    /\ Len(build.arrived) = 2
    /\ build.arrived[1].k = 7
    /\ build.arrived[2].k = 6

\* What the lookup for a suburb brings from a database that answers.
nearbyOf(suburb) ==
    live_getNearbySuburbs("ok", dbRows, suburb.latitude, suburb.longitude, 9,
                          suburb.id).value

\* C20: a build whose lookups failed for some suburbs still returns a page
\* for every suburb; the page of a suburb whose lookup failed has an empty
\* nearbySuburbs, every other page is the one a build without failures
\* returns, and no lookup was made twice.
C20_FailedLookupLeavesEmptyList ==
    build.pc = "done" /\ build.suburbs # <<>> =>
        /\ Len(build.locationPages) = Len(build.suburbs)
        /\ \A k \in 1..Len(build.suburbs) :
               /\ build.lookups[k] = 1
               /\ build.locationPages[k] =
                      [suburb |-> build.suburbs[k],
                       nearbySuburbs |-> IF k \in build.failed THEN <<>>
                                         ELSE nearbyOf(build.suburbs[k]),
                       slug |-> generateLocationSlug(build.suburbs[k]),
                       url |-> generateLocationUrl(build.suburbs[k])]

\* Seven pages were built and the lookup of exactly one suburb failed.
C20_Witness ==
    /\ build.pc = "done"
    /\ Len(build.locationPages) = 7
    /\ Cardinality(build.failed) = 1
    /\ \E k \in build.failed : build.locationPages[k].nearbySuburbs = <<>>
    /\ \E k \in 1..7 : build.locationPages[k].nearbySuburbs # <<>>

----------------------------------------------------------------------------
(* Properties of getNearbySuburbs *)

\* C11: getNearbySuburbs returns at most limit suburbs, by non-decreasing
\* distance, and never the suburb whose id is the excludeId that was given,
\* whatever id that is.
C11_NearbyLimitedOrderedExcluding ==
    (call.op = "getNearbySuburbs" /\ ~call.threw) =>
        /\ Len(call.value) <= call.args.limit
        /\ \A i \in 1..(Len(call.value) - 1) :
               call.value[i].distanceKm <= call.value[i + 1].distanceKm
        /\ call.args.excludeId # undefined =>
               \A i \in 1..Len(call.value) : call.value[i].id # call.args.excludeId

----------------------------------------------------------------------------
(* Either backend, as the process selected it, queried in any order *)

InitRepository == InitStatic \/ InitLive

NextRepository ==
    \/ useStaticData /\ StaticGetSuburbsWithinRadius
    \/ useStaticData /\ StaticGetNearbySuburbs
    \/ useStaticData /\ StaticGetSuburbsWithPopulation
    \/ useStaticData /\ StaticGetSuburbsByName
    \/ ~useStaticData /\ LiveGetSuburbsWithinRadius
    \/ ~useStaticData /\ LiveGetNearbySuburbs
    \/ ~useStaticData /\ LiveGetSuburbsWithPopulation
    \/ ~useStaticData /\ LiveGetSuburbsByName
    \/ ~useStaticData /\ DbChanges

SpecRepository == InitRepository /\ [][NextRepository]_vars

\* The suburbs the last query read: the loaded list, or the rows of the table.
repositorySuburbs == IF call.backend = "static" THEN cachedSuburbs.val ELSE dbRows

\* A getSuburbsByName call that the repository answered.
ByNameAnswered ==
    /\ call.op = "getSuburbsByName"
    /\ ~call.threw
    /\ call.backend = "live" => call.args.status = "ok"

----------------------------------------------------------------------------
(* validate-suburbs: the script that checks suburbs.json before a build.   *)
(* Coordinates are in units of 10 m; 0.001 degrees are 11 of them.         *)

centerTolerance == 11

\* config.service.radius_km || ... || 33 of a configuration that names no
\* radius.
expectedRadius == 33

\* calculateConfigHash(config)
configHash == "lat-0-lng-0"

\* suburbs.json: absent, not JSON, or an object with (or without: null,
\* 0, '') a center, a radius and a hash.
noFile == [exists |-> FALSE]

SuburbsFiles ==
    {noFile, [exists |-> TRUE, parses |-> FALSE]}
    \cup {[exists |-> TRUE, parses |-> TRUE, center |-> center, radiusKm |-> radiusKm,
           configHash |-> hash] :
             center \in {Null} \cup {Some([lat |-> lat, lng |-> lng]) :
                                        lat \in {0, 11, 12}, lng \in {0, -12}},
             radiusKm \in {0, expectedRadius, exportRadiusKm},
             hash \in {"", configHash, "lat-5-lng-5"}}

\* The file export-suburbs.ts writes.
exportedFile ==
    [exists |-> TRUE, parses |-> TRUE, center |-> Some(exportCenter),
     radiusKm |-> exportRadiusKm, configHash |-> ""]

\* The try block that reads the file: "valid" when the function returns
\* from it, else the reason regeneration is needed.
fileCheck(file) ==
    IF ~file.exists \/ ~file.parses THEN "File not found or invalid JSON"
    ELSE IF file.center.isNull \/ file.radiusKm = 0 THEN "Missing metadata"
    ELSE IF abs(file.center.val.lat - siteCoordinates.lat) > centerTolerance
    THEN "Latitude mismatch"
    ELSE IF abs(file.center.val.lng - siteCoordinates.lng) > centerTolerance
    THEN "Longitude mismatch"
    ELSE IF file.radiusKm # expectedRadius THEN "Radius mismatch"
    ELSE IF file.configHash # "" /\ file.configHash # configHash
    THEN "Configuration changed"
    ELSE "valid"

\* The branch without a database: fs.access decides.
withoutDatabase(v) ==
    IF v.file.exists THEN [v EXCEPT !.pc = "completed", !.stale = TRUE]
    ELSE [v EXCEPT !.pc = "exited"]

\* The branch with a database: execSync throws, or the file is written and
\* the lines after it read expectedState, which nothing declares: the
\* ReferenceError is caught by the same catch block, which exits.
regenerate(v, exported) ==
    IF ~exported THEN [v EXCEPT !.pc = "exited"]
    ELSE [v EXCEPT !.pc = "exited", !.file = exportedFile, !.exported = TRUE]

\* validateSuburbs up to hasDatabase(): the configuration is read (a
\* failure rejects the promise, and the catch handler exits), then the file.
ValidateSuburbs ==
    /\ validation.pc = "idle"
    /\ validation' =
           IF ~validation.configReadable THEN [validation EXCEPT !.pc = "exited"]
           ELSE IF fileCheck(validation.file) = "valid"
           THEN [validation EXCEPT !.pc = "completed", !.reason = "valid"]
           ELSE [validation EXCEPT !.pc = "needsRegeneration",
                                   !.reason = fileCheck(validation.file)]
    /\ UNCHANGED <<staticVars, liveVars, callVars, configVars, footerVars,
                   cacheVars, spintaxVars, pageVars, templateVars>>

\* hasDatabase() resolved, and what follows it up to the export.
HasDatabase ==
    \E dbAvailable \in BOOLEAN :
        /\ validation.pc = "needsRegeneration"
        /\ validation' =
               IF dbAvailable
               THEN [validation EXCEPT !.pc = "regenerating", !.dbAvailable = TRUE]
               ELSE withoutDatabase([validation EXCEPT !.dbAvailable = FALSE])
        /\ UNCHANGED <<staticVars, liveVars, callVars, configVars, footerVars,
                       cacheVars, spintaxVars, pageVars, templateVars>>

\* execSync('npx tsx scripts/export-suburbs.ts') returned or threw, and what
\* follows it.
ExportSuburbs ==
    \E exported \in BOOLEAN :
        /\ validation.pc = "regenerating"
        /\ validation' = regenerate(validation, exported)
        /\ UNCHANGED <<staticVars, liveVars, callVars, configVars, footerVars,
                       cacheVars, spintaxVars, pageVars, templateVars>>

InitValidation ==
    /\ suburbsData = Null
    /\ cachedSuburbs = Null
    /\ siteState = "SA"
    /\ dbStatus = "ok"
    /\ dbRows = <<>>
    /\ call = NoCall
    /\ centersQueried = {}
    /\ useStaticData = FALSE
    /\ IdleConfig
    /\ footer = [called |-> FALSE]
    /\ selection = [called |-> FALSE]
    /\ IdleCache
    /\ IdleSpintax
    /\ env = envFor(useStaticData)
    /\ builderUseStaticData = builderSelectsStatic(env)
    /\ backendsQueried = {}
    /\ build = [pc |-> "idle"]
    /\ loop = [pc |-> "idle"]
    /\ processor = Null
    /\ \E file \in SuburbsFiles, configReadable \in BOOLEAN :
           validation = [pc |-> "idle", file |-> file, configReadable |-> configReadable,
                         reason |-> "", dbAvailable |-> FALSE, exported |-> FALSE,
                         stale |-> FALSE]

NextValidation == ValidateSuburbs \/ HasDatabase \/ ExportSuburbs

SpecValidation == InitValidation /\ [][NextValidation]_vars

\* C21: with a configuration that can be read and an export that works
\* when it is run, the script exits fatally only when the file is absent
\* and no database is reachable; a file that does not match, without a
\* database, lets the build go on with that file.
C21_FatalOnlyWithoutFileAndDatabase ==
    /\ (/\ validation.pc = "exited"
        /\ validation.configReadable
        /\ validation.dbAvailable => validation.exported)
           => ~validation.file.exists /\ ~validation.dbAvailable
    /\ validation.pc = "needsRegeneration" =>
           \A after \in {withoutDatabase(validation)} :
               validation.file.exists => after.pc = "completed" /\ after.stale

----------------------------------------------------------------------------
(* Properties of the first loop of smartSelectLocations *)

\* The first loop of the last smartSelectLocations call: the suburbs it
\* selected, in the order it selected them.
selectionConstrained ==
    UNION {{[k \in 1..Len(constrained) |-> scored[constrained[k]].suburb] :
               constrained \in {constrainedSelection(scored, selection.count)}} :
           scored \in {scoredSuburbs(selection.suburbs)}}

\* C22: no pick of the first loop that was made with 4 or more suburbs
\* already selected gave a direction its third (or later) suburb.
C22_NoThirdPickOfADirection ==
    selection.called =>
        \A picked \in selectionConstrained :
            \A k \in 5..Len(picked) :
                Cardinality({j \in 1..(k - 1) :
                                picked[j].direction = picked[k].direction}) < 2

\* The suburbs of a tier among the first n suburbs of a list.
tierCount(suburbs, tier, n) == Cardinality({j \in 1..n : tierOf(suburbs[j]) = tier})

\* C23: after every pick of the first loop each distance tier holds at most
\* ceil(count/3) suburbs, and a tier of the returned list holds more only
\* when the first loop selected fewer than count suburbs.
C23_TierCapInConstrainedPass ==
    selection.called =>
        \A picked \in selectionConstrained, tier \in {"close", "medium", "far"} :
            /\ \A n \in 0..Len(picked) :
                   tierCount(picked, tier, n) <= (selection.count + 2) \div 3
            /\ tierCount(selection.result, tier, Len(selection.result))
                   > (selection.count + 2) \div 3
                   => Len(picked) < selection.count

\* The first loop filled a tier to its cap and selected fewer than count
\* suburbs, and the returned list holds more suburbs of that tier.
C23_Witness ==
    /\ selection.called
    /\ selection.count = footerCount
    /\ \E picked \in selectionConstrained, tier \in {"close", "medium", "far"} :
           /\ Len(picked) < selection.count
           /\ tierCount(picked, tier, Len(picked)) = (footerCount + 2) \div 3
           /\ tierCount(selection.result, tier, Len(selection.result))
                  > (footerCount + 2) \div 3

----------------------------------------------------------------------------
(* Properties of one round of processSpintaxWithSeed                       *)

\* The groups of a text that hold a bar and no brace: the positions of
\* their two braces.
innermostGroups(text) ==
    {group \in (1..Len(text)) \X (1..Len(text)) :
        /\ group[1] < group[2]
        /\ charAt(text, group[1]) = "{"
        /\ charAt(text, group[2]) = "}"
        /\ \A k \in (group[1] + 1)..(group[2] - 1) : charAt(text, k) \notin {"{", "}"}
        /\ \E k \in (group[1] + 1)..(group[2] - 1) : charAt(text, k) = "|"}

\* C24: a round that finds a group replaces the first innermost group of
\* the text (no brace inside, at least one bar) by the option of that group
\* at index abs((seed + i) * 2654435761) mod optionCount, i being the number
\* of the round counted from 1; the text put in is that option as written.
C24_RoundInsertsOwnOption ==
    [][loop.pc = "looping" /\ loopContinues(loop) /\ innermostGroups(loop.text) # {}
          => \E group \in innermostGroups(loop.text) :
                 /\ \A other \in innermostGroups(loop.text) : group[1] <= other[1]
                 /\ \E options \in {splitBars(SubSeq(loop.text, group[1] + 1,
                                                     group[2] - 1))} :
                        /\ loop'.iterations = loop.iterations + 1
                        /\ loop'.text =
                               SubSeq(loop.text, 1, group[1] - 1)
                               \o options[spintaxIndex(loop.seed, loop'.iterations,
                                                       Len(options)) + 1]
                               \o dropFirst(loop.text, group[2])]_vars

----------------------------------------------------------------------------
(* Properties of scoreSuburb                                               *)

\* C25: the score of a suburb, in hundredths of a point, is 25 points for an
\* unknown population and min(population / 100, 100) for a known one, plus
\* 50 for 5 to 15 km, 30 below 5 km, 40 above 15 up to 25 km, 30 above 25 up
\* to 35 km and 20 beyond, plus 20 for a density above 1000, plus 30 for a
\* name that is on the list of major suburbs.
C25_ScoreAsStated ==
    selection.called =>
        \A i \in 1..Len(selection.suburbs) :
            \E suburb \in {selection.suburbs[i]} :
                scoreSuburb(suburb)
                    = (IF suburb.population = undefined THEN 2500
                       ELSE Min({suburb.population, 10000}))
                      + (CASE suburb.distanceKm < Km(5) -> 3000
                           [] suburb.distanceKm >= Km(5) /\ suburb.distanceKm <= Km(15) -> 5000
                           [] suburb.distanceKm > Km(15) /\ suburb.distanceKm <= Km(25) -> 4000
                           [] suburb.distanceKm > Km(25) /\ suburb.distanceKm <= Km(35) -> 3000
                           [] suburb.distanceKm > Km(35) -> 2000)
                      + (IF suburb.populationDensity # undefined
                            /\ suburb.populationDensity > 1000 THEN 2000 ELSE 0)
                      + (IF toLowerCase(suburb.name)
                                \in {toLowerCase(majorSuburbs[m]) : m \in 1..Len(majorSuburbs)}
                         THEN 3000 ELSE 0)

----------------------------------------------------------------------------
(* Properties of the direction of the suburbs a query returns              *)

\* The points the direction between identical points is computed for.
DirectionPoints == {-350, -4, 0, 4, 350}

\* C26: every suburb a query of either backend returns carries one of the
\* eight compass points as its direction, and the direction from a point to
\* itself is N.
C26_DirectionIsCompassPoint ==
    /\ (call.op # "none" /\ ~call.threw) =>
           \A i \in 1..Len(call.value) :
               \E k \in 1..Len(directions) : call.value[i].direction = directions[k]
    /\ \A lat \in DirectionPoints, lng \in DirectionPoints :
           calculateDirection(lat, lng, lat, lng) = "N"

----------------------------------------------------------------------------
(* Properties of the batches of buildLocationPages                         *)

\* The batch a position of the suburbs belongs to, counted from 0.
batchNumber(k) == (k - 1) \div batchSize

\* C27: at most 5 nearby lookups are outstanding at any time of a build, and
\* a lookup of a batch is started only when every lookup of the batches
\* before it has completed and its result was pushed.
C27_BatchesOfFiveInTurn ==
    build.pc \in {"batch", "done"} =>
        /\ Cardinality(build.pending) <= 5
        /\ \A k \in 1..Len(build.suburbs) :
               build.lookups[k] > 0 =>
                   \A j \in 1..Len(build.suburbs) :
                       batchNumber(j) < batchNumber(k) =>
                           /\ j \notin build.pending
                           /\ build.lookups[j] > 0
                           /\ j <= Len(build.locationPages)

\* The two lookups of the second batch are outstanding, the five pages of
\* the first batch are there.
C27_Witness ==
    /\ build.pc = "batch"
    /\ build.pending = {6, 7}
    /\ Len(build.locationPages) = 5

----------------------------------------------------------------------------
(* Properties of the memoized list of the static backend                   *)

----------------------------------------------------------------------------
(* Properties of the list getCachedFooterLocations returns                 *)

\* C29: the calls of getCachedFooterLocations of one process all return the
\* same list, and a list that was cached is never replaced by another one,
\* whatever the repository answers to a second computation.
C29_OneFooterListPerProcess ==
    /\ [](\A c, d \in Callers :
              /\ callers[c].entry = "locations" /\ callers[c].pc = "returned"
              /\ callers[d].entry = "locations" /\ callers[d].pc = "returned"
              => callers[c].value = callers[d].value)
    /\ [][~cachedFooterLocations.isNull
              => cachedFooterLocations' = cachedFooterLocations]_vars

----------------------------------------------------------------------------
(* The pages of a site whose main location is one of the suburbs           *)

\* PUBLIC_MAIN_LOCATION: not set, a suburb of the region in another letter
\* case, a name that is no suburb of the region.
MainLocations == {"", "PROSPECT", "Nowhere"}

InitMainLocation ==
    /\ env = envFor(FALSE)
    /\ useStaticData = footerSelectsStatic(env)
    /\ builderUseStaticData = builderSelectsStatic(env)
    /\ suburbsData = Null
    /\ cachedSuburbs = Null
    /\ siteState = "SA"
    /\ dbStatus = "ok"
    /\ dbRows = Region(7, 3)
    /\ call = NoCall
    /\ centersQueried = {}
    /\ envCenter = Null
    /\ serviceRadiusKm = undefined
    /\ footerFeaturedSuburbs = <<>>
    /\ mainLocation \in MainLocations
    /\ footer = [called |-> FALSE]
    /\ selection = [called |-> FALSE]
    /\ IdleCache
    /\ IdleSpintax
    /\ backendsQueried = {}
    /\ build = [pc |-> "idle"]
    /\ IdleTemplates

SpecMainLocation == InitMainLocation /\ [][NextPages]_vars

\* C30: no page that buildLocationPages returns has the url '/': the suburb
\* that bears the name of the main location, in whatever letter case, is not
\* among the suburbs that are processed, and the url of every page is
\* '/locations/<slug>/' with the slug generateLocationSlug makes of its suburb.
C30_NoPageAtHomepageUrl ==
    build.pc # "idle" =>
        /\ \A k \in 1..Len(build.suburbs) :
               mainLocation # "" =>
                   toLowerCase(build.suburbs[k].name) # toLowerCase(mainLocation)
        /\ \A j \in 1..Len(build.locationPages) :
               \E page \in {build.locationPages[j]} :
                   /\ page.url # "/"
                   /\ page.slug = generateLocationSlug(page.suburb)
                   /\ page.url = "/locations/" \o page.slug \o "/"

\* The region holds Prospect, which is the main location; the build
\* returned a page for each of the six other suburbs.
C30_Witness ==
    /\ mainLocation = "PROSPECT"
    /\ \E i \in 1..Len(dbRows) : dbRows[i].name = "Prospect"
    /\ build.pc = "done"
    /\ Len(build.locationPages) = 6
    /\ \A j \in 1..6 : build.locationPages[j].suburb.name # "Prospect"

====
